---- MODULE Spec2Model ----
(***************************************************************************)
(* HelperDEJackpot: worker instances that claim "jackpot run" sessions    *)
(* from the shared table de_jackpot_sessions, play the dice run with the  *)
(* player and write the outcome back.                                     *)
(*                                                                         *)
(* The repository holds three variants of the worker.  They share the     *)
(* message handler, the timeout handler and the finalizer and differ in   *)
(* the claim coordinator and in the prompt update:                        *)
(*   "main"  src/jackpot_index.js   one transaction per claimed row,      *)
(*                                  prompt update without suspension      *)
(*   "batch" src/unnamed/part_000   one transaction per tick, the session *)
(*                                  is registered before the COMMIT       *)
(*   "price" src/unnamed/part_001   claim as in "main", the prompt update *)
(*                                  awaits a price lookup between         *)
(*                                  clearing and arming the timer         *)
(* The variable variant is fixed by Init and selects the code that runs.  *)
(* Spec, SpecTwo, SpecThree and SpecStore run "main", SpecBatch runs      *)
(* "batch", SpecPrice "price".                                             *)
(*                                                                         *)
(* Every action is one run of the event loop: the synchronous code from   *)
(* one resumption up to the next await that really suspends.              *)
(***************************************************************************)
EXTENDS Integers, Sequences, FiniteSets, Bags, TLC

VARIABLES
    variant,              \* which source file is running
    db,                   \* committed rows of de_jackpot_sessions
    jackpot_pool_ok,      \* per row: jackpot_pool_at_session_start converts with BigInt
    tx,                   \* per tick: position of checkAndInitiateJackpotSessions
    botUsername,          \* per worker: module variable botUsername
    isShuttingDownHelper, \* per worker: "no" | "flag" | "exited"
    activeHelperSessions, \* per worker: keys of the Map, in insertion order
    obj,                  \* per worker and session: the sessionData object
    stale,                \* per worker and session: pending timers no object refers to
    sends,                \* per worker and session: unsettled bot.sendMessage prompts
    upd,                  \* per worker and session: suspended sendJackpotRunUpdate calls
    fin,                  \* bag of finalize calls waiting for their store write
    ghost,                \* bag of unsettled prompts of objects the Map no longer reaches
    registered,           \* history: per worker and session, times the claim loop stored it
    finalizeCalls,        \* history: per worker and session, finalStatus of each finalize call
    rowCount,             \* history: per worker and session, finalize UPDATEs with rowCount > 0
    lateRoll,             \* history: per worker and session, a roll of its player was dropped
                          \*          while a finalize write of the session was in flight
    notified,             \* history: per worker and session, outcome notifications sent
    zeroRows,             \* history: per worker and session, a finalize UPDATE had rowCount 0
    failures,             \* history: per worker and session, the kinds of failed prompt deliveries
    liveAtShutdown,       \* history: per worker, the sessions in its Map when shutdownHelper ran
    dbPollingIntervalId,  \* per worker: "null", "set" by setInterval, "cleared" by clearInterval
    startup,              \* per worker: where startHelperBot stands
    received,             \* per worker: the signal shutdownHelper was called with, or "none"
    priceFetch            \* one call of fetchSolUsdPriceFromAPIForHelper: where it stands,
                          \*          attempt, lastError, and the requests it made so far

vars == <<variant, db, jackpot_pool_ok, tx, botUsername, isShuttingDownHelper,
          activeHelperSessions, obj, stale, sends, upd, fin, ghost, registered,
          finalizeCalls, rowCount, lateRoll, notified, zeroRows, failures,
          liveAtShutdown,
                   dbPollingIntervalId, startup, received, priceFetch>>

----------------------------------------------------------------------------
(* Universe of the model *)

Workers == {"w1", "w2"}
Sessions == {"s1", "s2", "s3"}
Ticks == {"t1", "t2"}

\* the workers that receive a termination signal in the model
SignalledWorkers == {"w1"}

\* largest dice value the transport delivers in the model
MaxDice == 2

\* most prompts of one session whose delivery is still unsettled; a prompt
\* sent beyond that counts the oldest one as delivered
MaxUnsettled == 1

Min(a, b) == IF a < b THEN a ELSE b

MAX_SESSIONS_PER_CYCLE == 2

DefaultUsername == "HelperDEJackpotBot"

\* the name getMe reports for a worker
MeUsername(w) == IF w = "w1" THEN "botA" ELSE DefaultUsername

----------------------------------------------------------------------------
(* Immutable columns of a row, as the enqueuing system wrote them *)

CreatedAt(s) == IF s = "s1" THEN 1 ELSE IF s = "s2" THEN 2 ELSE 3
UserChat(s) == <<"u1", "c1">>
Players == {<<"u1", "c1">>, <<"u2", "c1">>}
initial_score(s) == IF s = "s1" THEN 7 ELSE IF s = "s2" THEN 8 ELSE 9
target_jackpot_score(s) == 10
bust_on_value(s) == 1

Digits == <<"1", "2", "3", "4", "5", "6", "7", "8", "9">>

\* JSON text is a sequence of tokens; NullJson is the SQL NULL
NullJson == <<"NULL">>
EmptyArrayJson == <<"[", "]">>

RECURSIVE JoinTokens(_)
JoinTokens(a) ==
    IF Len(a) = 0 THEN <<>>
    ELSE IF Len(a) = 1 THEN <<Digits[a[1]]>>
    ELSE <<Digits[a[1]], ",">> \o JoinTokens(Tail(a))

JSONstringify(a) == <<"[">> \o JoinTokens(a) \o <<"]">>

TokenValue(t) == CHOOSE n \in 1..Len(Digits) : Digits[n] = t

RECURSIVE ParseElements(_)
ParseElements(toks) ==
    IF Len(toks) = 0 \/ toks[1] = "]" THEN <<>>
    ELSE IF toks[1] = "," THEN ParseElements(Tail(toks))
    ELSE <<TokenValue(toks[1])>> \o ParseElements(Tail(toks))

JSONparse(text) == ParseElements(Tail(text))

initial_rolls_json(s) == IF s = "s1" THEN JSONstringify(<<3, 4>>) ELSE JSONstringify(<<4, 4>>)

\* initial_rolls_json || '[]'
OrEmptyArray(text) == IF text = NullJson THEN EmptyArrayJson ELSE text

----------------------------------------------------------------------------
(* Values *)

NullNotes == <<"NULL", 0>>
NullScore == -1

NewRow == [status |-> "pending_pickup", helper_bot_id |-> "NULL",
           final_score |-> NullScore, final_rolls_json |-> NullJson,
           outcome_notes |-> NullNotes]

\* a session_id the table has no row for
NoRow == [NewRow EXCEPT !.status = "none"]

TerminalStatuses == {"completed_bust", "completed_target_reached",
                     "completed_timeout_forfeit", "error_sending_message",
                     "error_helper_init_prompt"}

NoObj == [made |-> FALSE, jackpot_run_rolls |-> <<>>, jackpot_run_score |-> 0,
          current_total_score |-> 0, turnTimeoutId |-> "null"]

IdleTx == [pc |-> "idle", w |-> "none", i |-> 0, n |-> 0, rows |-> <<>>, done |-> {},
           aborted |-> FALSE]

\* a tick is an invocation of checkAndInitiateJackpotSessions; two of them
\* can be in progress at once, in one worker or in two
TickWorker(t) == tx[t].w

\* the free tick with the lowest number is the one that starts
TickOrder(t) == IF t = "t1" THEN 1 ELSE 2

NoUpd == [init |-> FALSE, roll |-> 0]

InMap(w, s) == \E k \in 1..Len(activeHelperSessions[w]) : activeHelperSessions[w][k] = s

RECURSIVE Without(_, _)
Without(q, s) ==
    IF Len(q) = 0 THEN <<>>
    ELSE IF q[1] = s THEN Without(Tail(q), s)
    ELSE <<q[1]>> \o Without(Tail(q), s)

\* Map.set: a new key goes to the end, an existing key keeps its place
MapSet(q, s) == IF \E k \in 1..Len(q) : q[k] = s THEN q ELSE Append(q, s)

RECURSIVE SumOver(_, _)
SumOver(S, f) == IF S = {} THEN 0
                 ELSE LET x == CHOOSE y \in S : TRUE IN f[x] + SumOver(S \ {x}, f)

RECURSIVE SumSeq(_)
SumSeq(q) == IF Len(q) = 0 THEN 0 ELSE q[1] + SumSeq(Tail(q))

----------------------------------------------------------------------------
(* Initial state: the rows of enqueued are in the table, nothing is claimed, *)
(* the workers are started                                                  *)

\* no call of the price fetch has been made
NoFetch == [pc |-> "idle", attempt |-> 0, lastError |-> <<>>, requests |-> 0,
            log |-> <<>>, delayMs |-> 0]

InitState(v, enqueued) ==
    /\ variant = v
    /\ db = [s \in Sessions |-> IF s \in enqueued THEN NewRow ELSE NoRow]
    /\ jackpot_pool_ok \in {f \in [Sessions -> BOOLEAN] : \A s \in Sessions \ enqueued : f[s]}
    /\ tx = [t \in Ticks |-> IdleTx]
    /\ botUsername = [w \in Workers |-> DefaultUsername]
    /\ isShuttingDownHelper = [w \in Workers |-> "no"]
    /\ activeHelperSessions = [w \in Workers |-> <<>>]
    /\ obj = [w \in Workers |-> [s \in Sessions |-> NoObj]]
    /\ stale = [w \in Workers |-> [s \in Sessions |-> 0]]
    /\ sends = [w \in Workers |-> [s \in Sessions |-> 0]]
    /\ upd = [w \in Workers |-> [s \in Sessions |-> NoUpd]]
    /\ fin = EmptyBag
    /\ ghost = EmptyBag
    /\ registered = [w \in Workers |-> [s \in Sessions |-> 0]]
    /\ finalizeCalls = [w \in Workers |-> [s \in Sessions |-> <<>>]]
    /\ rowCount = [w \in Workers |-> [s \in Sessions |-> 0]]
    /\ lateRoll = [w \in Workers |-> [s \in Sessions |-> FALSE]]
    /\ notified = [w \in Workers |-> [s \in Sessions |-> 0]]
    /\ zeroRows = [w \in Workers |-> [s \in Sessions |-> FALSE]]
    /\ failures = [w \in Workers |-> [s \in Sessions |-> {}]]
    /\ liveAtShutdown = [w \in Workers |-> {}]
    /\ received = [w \in Workers |-> "none"]
    /\ priceFetch = NoFetch

\* every worker has passed startHelperBot: the claim timer runs
InitOf(v, enqueued) ==
    /\ InitState(v, enqueued)
    /\ dbPollingIntervalId = [w \in Workers |-> "set"]
    /\ startup = [w \in Workers |-> "done"]

----------------------------------------------------------------------------
(* The store *)

\* rows a claim transaction holds FOR UPDATE
LockedBy(t) == {tx[t].rows[k] : k \in 1..Len(tx[t].rows)}

RowLocked(s) == \E t \in Ticks : s \in LockedBy(t)

\* the SELECT without FOR UPDATE SKIP LOCKED
Claimable_IgnoringLocks == {s \in Sessions : db[s].status = "pending_pickup"}

\* the SELECT without WHERE status = 'pending_pickup'
Claimable_AnyStatus == {s \in Sessions : db[s].status # NoRow.status /\ ~RowLocked(s)}

\* WHERE status = 'pending_pickup' ... FOR UPDATE SKIP LOCKED
Claimable == {s \in Sessions : db[s].status = "pending_pickup" /\ ~RowLocked(s)}

\* ORDER BY created_at DESC LIMIT 1
Oldest_Youngest(S) == CHOOSE s \in S : \A r \in S : CreatedAt(s) >= CreatedAt(r)

\* ORDER BY created_at ASC LIMIT 1
Oldest(S) == CHOOSE s \in S : \A r \in S : CreatedAt(s) <= CreatedAt(r)

\* UPDATE ... SET status = 'active_by_helper', helper_bot_id = $2 ... RETURNING *
ClaimedRow(row, owner) == [row EXCEPT !.status = "active_by_helper", !.helper_bot_id = owner]

\* WHERE session_id = $5 AND (status = 'active_by_helper' OR helper_bot_id = $6)
FinalizeMatches(row, me) == row.status = "active_by_helper" \/ row.helper_bot_id = me

FinalizedRow(row, r) ==
    [row EXCEPT !.status = r.finalStatus, !.final_score = r.finalOverallScore,
                !.final_rolls_json = r.finalRollsCombined,
                !.outcome_notes = r.outcomeNotesStr]

----------------------------------------------------------------------------
(* finalizeJackpotSession, the part that runs before its first await *)

\* clearTimeout(sessionData.turnTimeoutId) when the Map still holds the session
FinObj(o, present) ==
    IF present /\ o.turnTimeoutId = "armed" THEN [o EXCEPT !.turnTimeoutId = "dead"] ELSE o

FinRecord(w, s, present, finalStatus, score, runRolls, notes) ==
    [w |-> w, s |-> s, finalStatus |-> finalStatus, finalOverallScore |-> score,
     finalRollsCombined |->
        JSONstringify(JSONparse(IF present THEN OrEmptyArray(initial_rolls_json(s))
                                           ELSE EmptyArrayJson) \o runRolls),
     outcomeNotesStr |-> notes, notify |-> present]

\* longest history of finalize calls kept for one worker and session
MaxCalls == 3

\* most finalize UPDATEs with rowCount > 0 counted for one worker and session
MaxWrites == 2

\* the session left in the Map while the store write is in flight
finalizeJackpotSession_KeepsSession(w, s, mapNow, o, finalStatus, score, runRolls, notes) ==
    LET present == \E k \in 1..Len(mapNow) : mapNow[k] = s IN
    /\ activeHelperSessions' = [activeHelperSessions EXCEPT ![w] = mapNow]
    /\ obj' = [obj EXCEPT ![w][s] = FinObj(o, present)]
    /\ fin' = fin (+) SetToBag({FinRecord(w, s, present, finalStatus, score, runRolls, notes)})
    /\ finalizeCalls' = [finalizeCalls EXCEPT ![w][s] =
                            IF Len(@) < MaxCalls THEN Append(@, finalStatus) ELSE @]

\* activeHelperSessions.clear() in place of delete(sessionId)
finalizeJackpotSession_ClearsMap(w, s, mapNow, o, finalStatus, score, runRolls, notes) ==
    LET present == \E k \in 1..Len(mapNow) : mapNow[k] = s IN
    /\ activeHelperSessions' = [activeHelperSessions EXCEPT ![w] = <<>>]
    /\ obj' = [obj EXCEPT ![w][s] = FinObj(o, present)]
    /\ fin' = fin (+) SetToBag({FinRecord(w, s, present, finalStatus, score, runRolls, notes)})
    /\ finalizeCalls' = [finalizeCalls EXCEPT ![w][s] =
                            IF Len(@) < MaxCalls THEN Append(@, finalStatus) ELSE @]

\* mapNow and o are the Map and the object as the caller left them
finalizeJackpotSession(w, s, mapNow, o, finalStatus, score, runRolls, notes) ==
    LET present == \E k \in 1..Len(mapNow) : mapNow[k] = s IN
    /\ activeHelperSessions' = [activeHelperSessions EXCEPT ![w] = Without(mapNow, s)]
    /\ obj' = [obj EXCEPT ![w][s] = FinObj(o, present)]
    /\ fin' = fin (+) SetToBag({FinRecord(w, s, present, finalStatus, score, runRolls, notes)})
    /\ finalizeCalls' = [finalizeCalls EXCEPT ![w][s] =
                            IF Len(@) < MaxCalls THEN Append(@, finalStatus) ELSE @]

\* the outcome notification sent whatever the UPDATE affected
FinalizeWrite_NotifiesAlways(r, ok) ==
    /\ BagIn(r, fin)
    /\ isShuttingDownHelper[r.w] # "exited"
    /\ ~RowLocked(r.s)
    /\ fin' = fin (-) SetToBag({r})
    /\ notified' = [notified EXCEPT ![r.w][r.s] = IF ok THEN Min(@ + 1, MaxWrites) ELSE @]
    /\ IF ok /\ FinalizeMatches(db[r.s], botUsername[r.w])
       THEN /\ db' = [db EXCEPT ![r.s] = FinalizedRow(db[r.s], r)]
            /\ rowCount' = [rowCount EXCEPT ![r.w][r.s] = Min(@ + 1, MaxWrites)]
            /\ UNCHANGED zeroRows
       ELSE /\ zeroRows' = [zeroRows EXCEPT ![r.w][r.s] = @ \/ ok]
            /\ UNCHANGED <<db, rowCount>>
    /\ UNCHANGED <<failures, liveAtShutdown,
                   dbPollingIntervalId, startup, received, priceFetch>>
    /\ UNCHANGED <<variant, jackpot_pool_ok, tx, botUsername, isShuttingDownHelper,
                   activeHelperSessions, obj, stale, sends, upd, ghost, registered,
                   finalizeCalls, lateRoll>>

\* the store write of a finalize call; ok = FALSE is a connect or query error.
\* The outcome notification goes out when the UPDATE affected a row and the
\* call had found the session in the Map.
FinalizeWrite(r, ok) ==
    /\ BagIn(r, fin)
    /\ isShuttingDownHelper[r.w] # "exited"
    /\ ~RowLocked(r.s)
    /\ fin' = fin (-) SetToBag({r})
    /\ IF ok /\ FinalizeMatches(db[r.s], botUsername[r.w])
       THEN /\ db' = [db EXCEPT ![r.s] = FinalizedRow(db[r.s], r)]
            /\ rowCount' = [rowCount EXCEPT ![r.w][r.s] = Min(@ + 1, MaxWrites)]
            /\ notified' = [notified EXCEPT ![r.w][r.s] =
                               IF r.notify THEN Min(@ + 1, MaxWrites) ELSE @]
            /\ UNCHANGED zeroRows
       ELSE /\ zeroRows' = [zeroRows EXCEPT ![r.w][r.s] = @ \/ ok]
            /\ UNCHANGED <<db, rowCount, notified>>
    /\ UNCHANGED <<failures, liveAtShutdown,
                   dbPollingIntervalId, startup, received, priceFetch>>
    /\ UNCHANGED <<variant, jackpot_pool_ok, tx, botUsername, isShuttingDownHelper,
                   activeHelperSessions, obj, stale, sends, upd, ghost, registered,
                   finalizeCalls, lateRoll>>

----------------------------------------------------------------------------
(* sendJackpotRunUpdate *)

\* if (sessionData.turnTimeoutId) { clearTimeout(...); sessionData.turnTimeoutId = null; }
ClearTimer(o) == [o EXCEPT !.turnTimeoutId = "null"]

\* the prompt sent without setTimeout
SendUpdateSync_NoTimer(w, s, mapNow, o) ==
    IF ~jackpot_pool_ok[s]
    THEN [threw |-> TRUE, o |-> ClearTimer(o), map |-> mapNow, sent |-> 0]
    ELSE [threw |-> FALSE, o |-> ClearTimer(o), map |-> MapSet(mapNow, s), sent |-> 1]

\* "main" and "batch": the whole update runs without suspension.
\* Result: <<threw, object, map, sends>>
SendUpdateSync(w, s, mapNow, o) ==
    IF ~jackpot_pool_ok[s]
    THEN [threw |-> TRUE, o |-> ClearTimer(o), map |-> mapNow, sent |-> 0]
    ELSE [threw |-> FALSE, o |-> [o EXCEPT !.turnTimeoutId = "armed"],
          map |-> MapSet(mapNow, s), sent |-> 1]

\* "price": the update clears the timer and suspends in getSolUsdPriceForHelper
Suspend(u, kind) ==
    IF kind = "init" THEN [u EXCEPT !.init = TRUE] ELSE [u EXCEPT !.roll = @ + 1]

Resume(u, kind) ==
    IF kind = "init" THEN [u EXCEPT !.init = FALSE] ELSE [u EXCEPT !.roll = @ - 1]

Suspended(u, kind) == IF kind = "init" THEN u.init ELSE u.roll > 0

InitPromptNotes == <<"Failed initial prompt", 0>>
SendFailNotes == <<"Helper failed to send", 0>>
TimeoutNotes == <<"Turn timed out", 0>>

\* the continuation of a suspended update; priceOk = FALSE is a failed lookup
\* with no cached price, which makes the code fall back to the BigInt conversion
PriceResume(w, s, kind, priceOk) ==
    /\ variant = "price"
    /\ isShuttingDownHelper[w] # "exited"
    /\ Suspended(upd[w][s], kind)
    /\ upd' = [upd EXCEPT ![w][s] = Resume(@, kind)]
    /\ LET o == obj[w][s] IN
       IF ~priceOk /\ ~jackpot_pool_ok[s]
       THEN \* the update rejects
            IF kind = "init"
            THEN /\ finalizeJackpotSession(w, s, activeHelperSessions[w], o,
                        "error_helper_init_prompt", initial_score(s), <<>>, InitPromptNotes)
                 /\ UNCHANGED <<stale, sends>>
            ELSE UNCHANGED <<activeHelperSessions, obj, fin, finalizeCalls, stale, sends>>
       ELSE /\ stale' = [stale EXCEPT ![w][s] = IF o.turnTimeoutId = "armed" THEN @ + 1 ELSE @]
            /\ obj' = [obj EXCEPT ![w][s] = [o EXCEPT !.turnTimeoutId = "armed"]]
            /\ sends' = [sends EXCEPT ![w][s] = Min(@ + 1, MaxUnsettled)]
            /\ activeHelperSessions' =
                  [activeHelperSessions EXCEPT ![w] = MapSet(@, s)]
            /\ UNCHANGED <<fin, finalizeCalls>>
    /\ UNCHANGED <<notified, zeroRows, failures, liveAtShutdown,
                   dbPollingIntervalId, startup, received, priceFetch>>
    /\ UNCHANGED <<variant, db, jackpot_pool_ok, tx, botUsername, isShuttingDownHelper,
                   ghost, registered, rowCount, lateRoll>>

\* every failed delivery ends the session, whatever its error code
SendSettle_FinalizesOnAnyError(w, s, outcome) ==
    /\ isShuttingDownHelper[w] # "exited"
    /\ sends[w][s] > 0
    /\ sends' = [sends EXCEPT ![w][s] = @ - 1]
    /\ failures' = [failures EXCEPT ![w][s] = IF outcome = "ok" THEN @ ELSE @ \cup {outcome}]
    /\ IF outcome # "ok"
       THEN finalizeJackpotSession(w, s, activeHelperSessions[w], obj[w][s],
                "error_sending_message", obj[w][s].current_total_score,
                obj[w][s].jackpot_run_rolls, SendFailNotes)
       ELSE UNCHANGED <<activeHelperSessions, obj, fin, finalizeCalls>>
    /\ UNCHANGED <<notified, zeroRows, liveAtShutdown,
                   dbPollingIntervalId, startup, received, priceFetch>>
    /\ UNCHANGED <<variant, db, jackpot_pool_ok, tx, botUsername, isShuttingDownHelper,
                   stale, upd, ghost, registered, rowCount, lateRoll>>

\* settlement of one bot.sendMessage promise of a prompt
SendSettle(w, s, outcome) ==
    /\ isShuttingDownHelper[w] # "exited"
    /\ sends[w][s] > 0
    /\ sends' = [sends EXCEPT ![w][s] = @ - 1]
    /\ failures' = [failures EXCEPT ![w][s] = IF outcome = "ok" THEN @ ELSE @ \cup {outcome}]
    /\ IF outcome = "fatal"
       THEN finalizeJackpotSession(w, s, activeHelperSessions[w], obj[w][s],
                "error_sending_message", obj[w][s].current_total_score,
                obj[w][s].jackpot_run_rolls, SendFailNotes)
       ELSE UNCHANGED <<activeHelperSessions, obj, fin, finalizeCalls>>
    /\ UNCHANGED <<notified, zeroRows, liveAtShutdown,
                   dbPollingIntervalId, startup, received, priceFetch>>
    /\ UNCHANGED <<variant, db, jackpot_pool_ok, tx, botUsername, isShuttingDownHelper,
                   stale, upd, ghost, registered, rowCount, lateRoll>>

----------------------------------------------------------------------------
(* bot.on('message') *)

\* the player's session looked up without the live table
FirstMatch_AnySession(q, player) ==
    IF \E s \in Sessions : UserChat(s) = player
    THEN CHOOSE s \in Sessions : UserChat(s) = player
    ELSE "none"

\* the scan that keeps the last match: no break
FirstMatch_LastMatch(q, player) ==
    LET hits == {k \in 1..Len(q) : UserChat(q[k]) = player} IN
    IF hits = {} THEN "none" ELSE q[CHOOSE k \in hits : \A j \in hits : j <= k]

RECURSIVE FirstMatch(_, _)
FirstMatch(q, player) ==
    IF Len(q) = 0 THEN "none"
    ELSE IF UserChat(q[1]) = player THEN q[1]
    ELSE FirstMatch(Tail(q), player)

\* the total computed before the run score is updated
Pushed_StaleScore(o, s, v) ==
    [ClearTimer(o) EXCEPT
        !.jackpot_run_rolls = Append(@, v),
        !.jackpot_run_score = @ + v,
        !.current_total_score = initial_score(s) + o.jackpot_run_score]

\* the bust tested before the push: the busting roll is not recorded
Pushed_DropsBust(o, s, v) ==
    IF v = bust_on_value(s) THEN ClearTimer(o)
    ELSE [ClearTimer(o) EXCEPT
            !.jackpot_run_rolls = Append(@, v),
            !.jackpot_run_score = @ + v,
            !.current_total_score = initial_score(s) + o.jackpot_run_score + v]

\* clearTimeout, push, += and the recomputed total
Pushed(o, s, v) ==
    [ClearTimer(o) EXCEPT
        !.jackpot_run_rolls = Append(@, v),
        !.jackpot_run_score = @ + v,
        !.current_total_score = initial_score(s) + o.jackpot_run_score + v]

\* the tests of the roll handler with the target tested first
RollOutcome_TargetFirst(o, s, v) ==
    IF o.current_total_score >= target_jackpot_score(s) THEN "completed_target_reached"
    ELSE IF v = bust_on_value(s) THEN "completed_bust"
    ELSE "continue"

\* the target tested with > in place of >=
RollOutcome_StrictTarget(o, s, v) ==
    IF v = bust_on_value(s) THEN "completed_bust"
    ELSE IF o.current_total_score > target_jackpot_score(s) THEN "completed_target_reached"
    ELSE "continue"

\* the tests of the roll handler, in their order
RollOutcome(o, s, v) ==
    IF v = bust_on_value(s) THEN "completed_bust"
    ELSE IF o.current_total_score >= target_jackpot_score(s) THEN "completed_target_reached"
    ELSE "continue"

\* the sessions of a player whose finalize write is in flight
Finalizing(w, player) ==
    {s \in Sessions : UserChat(s) = player /\ \E r \in BagToSet(fin) : r.w = w /\ r.s = s}

\* the handler without the test of isShuttingDownHelper
Roll_IgnoresFlag(w, player, v) ==
    /\ isShuttingDownHelper[w] # "exited"
    /\ LET s == FirstMatch(activeHelperSessions[w], player) IN
       IF s = "none"
       THEN /\ lateRoll' = [lateRoll EXCEPT ![w] =
                              [x \in Sessions |-> @[x] \/ x \in Finalizing(w, player)]]
            /\ UNCHANGED <<activeHelperSessions, obj, fin, finalizeCalls, stale, sends, upd>>
       ELSE LET o == Pushed(obj[w][s], s, v)
                outcome == RollOutcome(o, s, v)
            IN
            /\ UNCHANGED lateRoll
            /\ IF outcome = "completed_bust"
               THEN /\ finalizeJackpotSession(w, s, activeHelperSessions[w], o, outcome,
                           o.current_total_score, o.jackpot_run_rolls, <<"Busted on a", v>>)
                    /\ UNCHANGED <<stale, sends, upd>>
               ELSE IF outcome = "completed_target_reached"
               THEN /\ finalizeJackpotSession(w, s, activeHelperSessions[w], o, outcome,
                           o.current_total_score, o.jackpot_run_rolls,
                           <<"Target reached", o.current_total_score>>)
                    /\ UNCHANGED <<stale, sends, upd>>
               ELSE IF variant = "price"
               THEN /\ obj' = [obj EXCEPT ![w][s] = o]
                    /\ upd' = [upd EXCEPT ![w][s] = Suspend(@, "roll")]
                    /\ UNCHANGED <<activeHelperSessions, fin, finalizeCalls, stale, sends>>
               ELSE LET r == SendUpdateSync(w, s, activeHelperSessions[w], o) IN
                    /\ obj' = [obj EXCEPT ![w][s] = r.o]
                    /\ activeHelperSessions' = [activeHelperSessions EXCEPT ![w] = r.map]
                    /\ sends' = [sends EXCEPT ![w][s] = Min(@ + r.sent, MaxUnsettled)]
                    /\ UNCHANGED <<fin, finalizeCalls, stale, upd>>
    /\ UNCHANGED <<notified, zeroRows, failures, liveAtShutdown,
                   dbPollingIntervalId, startup, received, priceFetch>>
    /\ UNCHANGED <<variant, db, jackpot_pool_ok, tx, botUsername, isShuttingDownHelper,
                   ghost, registered, rowCount>>

\* bot.on('message'): the shutdown test, the scan of the Map and the roll
Roll(w, player, v) ==
    /\ isShuttingDownHelper[w] # "exited"
    /\ LET s == FirstMatch(activeHelperSessions[w], player) IN
       IF isShuttingDownHelper[w] = "flag"
       THEN UNCHANGED <<activeHelperSessions, obj, fin, finalizeCalls, stale, sends, upd,
                        lateRoll>>
       ELSE IF s = "none"
       THEN /\ lateRoll' = [lateRoll EXCEPT ![w] =
                              [x \in Sessions |-> @[x] \/ x \in Finalizing(w, player)]]
            /\ UNCHANGED <<activeHelperSessions, obj, fin, finalizeCalls, stale, sends, upd>>
       ELSE LET o == Pushed(obj[w][s], s, v)
                outcome == RollOutcome(o, s, v)
            IN
            /\ UNCHANGED lateRoll
            /\ IF outcome = "completed_bust"
               THEN /\ finalizeJackpotSession(w, s, activeHelperSessions[w], o, outcome,
                           o.current_total_score, o.jackpot_run_rolls, <<"Busted on a", v>>)
                    /\ UNCHANGED <<stale, sends, upd>>
               ELSE IF outcome = "completed_target_reached"
               THEN /\ finalizeJackpotSession(w, s, activeHelperSessions[w], o, outcome,
                           o.current_total_score, o.jackpot_run_rolls,
                           <<"Target reached", o.current_total_score>>)
                    /\ UNCHANGED <<stale, sends, upd>>
               ELSE IF variant = "price"
               THEN /\ obj' = [obj EXCEPT ![w][s] = o]
                    /\ upd' = [upd EXCEPT ![w][s] = Suspend(@, "roll")]
                    /\ UNCHANGED <<activeHelperSessions, fin, finalizeCalls, stale, sends>>
               ELSE LET r == SendUpdateSync(w, s, activeHelperSessions[w], o) IN
                    /\ obj' = [obj EXCEPT ![w][s] = r.o]
                    /\ activeHelperSessions' = [activeHelperSessions EXCEPT ![w] = r.map]
                    /\ sends' = [sends EXCEPT ![w][s] = Min(@ + r.sent, MaxUnsettled)]
                    /\ UNCHANGED <<fin, finalizeCalls, stale, upd>>
    /\ UNCHANGED <<notified, zeroRows, failures, liveAtShutdown,
                   dbPollingIntervalId, startup, received, priceFetch>>
    /\ UNCHANGED <<variant, db, jackpot_pool_ok, tx, botUsername, isShuttingDownHelper,
                   ghost, registered, rowCount>>

----------------------------------------------------------------------------
(* the timer callback and handleJackpotRunTurnTimeout *)

\* which = "ref": the timer the object refers to; "stale": one nothing refers to
TimerFire(w, s, which) ==
    /\ isShuttingDownHelper[w] # "exited"
    /\ IF which = "ref" THEN obj[w][s].turnTimeoutId = "armed" ELSE stale[w][s] > 0
    /\ stale' = IF which = "stale" THEN [stale EXCEPT ![w][s] = @ - 1] ELSE stale
    /\ LET o == IF which = "ref" THEN [obj[w][s] EXCEPT !.turnTimeoutId = "dead"]
                ELSE obj[w][s] IN
       IF InMap(w, s)
       THEN finalizeJackpotSession(w, s, activeHelperSessions[w], o,
                "completed_timeout_forfeit", o.current_total_score,
                o.jackpot_run_rolls, TimeoutNotes)
       ELSE /\ obj' = [obj EXCEPT ![w][s] = o]
            /\ UNCHANGED <<activeHelperSessions, fin, finalizeCalls>>
    /\ UNCHANGED <<notified, zeroRows, failures, liveAtShutdown,
                   dbPollingIntervalId, startup, received, priceFetch>>
    /\ UNCHANGED <<variant, db, jackpot_pool_ok, tx, botUsername, isShuttingDownHelper,
                   sends, upd, ghost, registered, rowCount, lateRoll>>

----------------------------------------------------------------------------
(* checkAndInitiateJackpotSessions: storing a claimed session and prompting *)

\* most times the claim loops of all workers store the same session
MaxRegistrations == 2

Registrations(s) == SumOver(Workers, [w \in Workers |-> registered[w][s]])

NewObj(s) == [made |-> TRUE, jackpot_run_rolls |-> <<>>, jackpot_run_score |-> 0,
              current_total_score |-> initial_score(s), turnTimeoutId |-> "null"]

\* the prompts of a replaced object keep referring to it: what their
\* failure callback would read from it is frozen from here on
GhostOf(w, s) == [w |-> w, s |-> s,
                  current_total_score |-> obj[w][s].current_total_score,
                  jackpot_run_rolls |-> obj[w][s].jackpot_run_rolls]

\* activeHelperSessions.set(session_id, {...}) followed by the opening
\* sendJackpotRunUpdate and, in "main", by the catch callback of its rejection
RegisterAndPrompt(w, s) ==
    LET old == obj[w][s]
        map1 == MapSet(activeHelperSessions[w], s)
        sends0 == [sends EXCEPT ![w][s] = 0]
    IN
    /\ registered' = [registered EXCEPT ![w][s] = @ + 1]
    /\ ghost' = IF sends[w][s] > 0
                THEN ghost (+) [g \in {GhostOf(w, s)} |-> sends[w][s]]
                ELSE ghost
    /\ stale' = [stale EXCEPT ![w][s] = IF old.turnTimeoutId = "armed" THEN @ + 1 ELSE @]
    /\ IF variant = "price"
       THEN /\ obj' = [obj EXCEPT ![w][s] = NewObj(s)]
            /\ activeHelperSessions' = [activeHelperSessions EXCEPT ![w] = map1]
            /\ upd' = [upd EXCEPT ![w][s] = Suspend(@, "init")]
            /\ sends' = sends0
            /\ UNCHANGED <<fin, finalizeCalls>>
       ELSE LET r == SendUpdateSync(w, s, map1, NewObj(s)) IN
            /\ sends' = [sends0 EXCEPT ![w][s] = r.sent]
            /\ UNCHANGED upd
            /\ IF r.threw /\ variant = "main"
               THEN finalizeJackpotSession(w, s, r.map, r.o, "error_helper_init_prompt",
                        initial_score(s), <<>>, InitPromptNotes)
               ELSE /\ obj' = [obj EXCEPT ![w][s] = r.o]
                    /\ activeHelperSessions' = [activeHelperSessions EXCEPT ![w] = r.map]
                    /\ UNCHANGED <<fin, finalizeCalls>>

\* settlement of a prompt whose object was replaced in the Map
GhostSettle(g, outcome) ==
    /\ BagIn(g, ghost)
    /\ isShuttingDownHelper[g.w] # "exited"
    /\ ghost' = ghost (-) SetToBag({g})
    /\ IF outcome = "fatal"
       THEN finalizeJackpotSession(g.w, g.s, activeHelperSessions[g.w], obj[g.w][g.s],
                "error_sending_message", g.current_total_score, g.jackpot_run_rolls,
                SendFailNotes)
       ELSE UNCHANGED <<activeHelperSessions, obj, fin, finalizeCalls>>
    /\ UNCHANGED <<notified, zeroRows, failures, liveAtShutdown,
                   dbPollingIntervalId, startup, received, priceFetch>>
    /\ UNCHANGED <<variant, db, jackpot_pool_ok, tx, botUsername, isShuttingDownHelper,
                   stale, sends, upd, registered, rowCount, lateRoll>>

----------------------------------------------------------------------------
(* checkAndInitiateJackpotSessions in "main" and "price": one transaction per row *)

PerRow == variant \in {"main", "price"}

\* the interval callback up to the first await pool.connect()
TickStart(t, w) ==
    LET activeSessionCount == Len(activeHelperSessions[w]) IN
    /\ isShuttingDownHelper[w] = "no"
    /\ dbPollingIntervalId[w] = "set"
    /\ tx[t].pc = "idle"
    /\ tx' = [tx EXCEPT ![t] =
                IF variant = "batch"
                THEN [IdleTx EXCEPT !.pc = "connect", !.w = w]
                ELSE IF activeSessionCount >= MAX_SESSIONS_PER_CYCLE
                THEN IdleTx
                ELSE [IdleTx EXCEPT !.pc = "connect", !.w = w,
                                    !.n = MAX_SESSIONS_PER_CYCLE - activeSessionCount]]
    /\ UNCHANGED <<notified, zeroRows, failures, liveAtShutdown,
                   dbPollingIntervalId, startup, received, priceFetch>>
    /\ UNCHANGED <<variant, db, jackpot_pool_ok, botUsername, isShuttingDownHelper,
                   activeHelperSessions, obj, stale, sends, upd, fin, ghost, registered,
                   finalizeCalls, rowCount, lateRoll>>

ClaimFailures == {"connect", "BEGIN", "SELECT", "UPDATE"}

\* what the store answers to the statements of a claim attempt
ClaimAnswers == ClaimFailures \cup {"none", "lost"}

\* an empty SELECT that goes on to the next round of the loop: continue for break
TickSelect_ContinuesOnEmpty(t, answer) ==
    LET w == TickWorker(t) IN
    /\ PerRow
    /\ tx[t].pc = "connect"
    /\ isShuttingDownHelper[w] # "exited"
    /\ tx' = [tx EXCEPT ![t] =
                IF answer = "connect" THEN IdleTx
                ELSE IF answer \in {"BEGIN", "SELECT"} THEN [@ EXCEPT !.pc = "failed"]
                ELSE IF Claimable = {}
                THEN IF tx[t].i < tx[t].n - 1 THEN [@ EXCEPT !.pc = "sleep"] ELSE IdleTx
                ELSE IF answer = "UPDATE"
                THEN [@ EXCEPT !.pc = "failed", !.rows = <<Oldest(Claimable)>>]
                ELSE IF answer = "lost"
                THEN [@ EXCEPT !.pc = "lost", !.rows = <<Oldest(Claimable)>>]
                ELSE [@ EXCEPT !.pc = "locked",
                               !.rows = <<Oldest(Claimable)>>,
                               !.done = {[s |-> Oldest(Claimable), owner |-> botUsername[w]]}]]
    /\ UNCHANGED <<notified, zeroRows, failures, liveAtShutdown,
                   dbPollingIntervalId, startup, received, priceFetch>>
    /\ UNCHANGED <<variant, db, jackpot_pool_ok, botUsername, isShuttingDownHelper,
                   activeHelperSessions, obj, stale, sends, upd, fin, ghost, registered,
                   finalizeCalls, rowCount, lateRoll>>

\* connect, BEGIN, SELECT ... FOR UPDATE SKIP LOCKED and the claiming UPDATE.
\* The four awaits are one step: the row lock is all that other transactions
\* see of them before the COMMIT.
\* answer = "none": all succeed; "lost": the UPDATE affects no row; otherwise
\* the statement that throws.  A failed connect leaves no client to roll
\* back, and an empty SELECT commits and leaves the loop: both end the tick
\* here.  The other failures await their ROLLBACK with the row still locked.
TickSelect(t, answer) ==
    LET w == TickWorker(t) IN
    /\ PerRow
    /\ tx[t].pc = "connect"
    /\ isShuttingDownHelper[w] # "exited"
    /\ tx' = [tx EXCEPT ![t] =
                IF answer = "connect" THEN IdleTx
                ELSE IF answer \in {"BEGIN", "SELECT"} THEN [@ EXCEPT !.pc = "failed"]
                ELSE IF Claimable = {} THEN IdleTx
                ELSE IF answer = "UPDATE"
                THEN [@ EXCEPT !.pc = "failed", !.rows = <<Oldest(Claimable)>>]
                ELSE IF answer = "lost"
                THEN [@ EXCEPT !.pc = "lost", !.rows = <<Oldest(Claimable)>>]
                ELSE [@ EXCEPT !.pc = "locked",
                               !.rows = <<Oldest(Claimable)>>,
                               !.done = {[s |-> Oldest(Claimable), owner |-> botUsername[w]]}]]
    /\ UNCHANGED <<notified, zeroRows, failures, liveAtShutdown,
                   dbPollingIntervalId, startup, received, priceFetch>>
    /\ UNCHANGED <<variant, db, jackpot_pool_ok, botUsername, isShuttingDownHelper,
                   activeHelperSessions, obj, stale, sends, upd, fin, ghost, registered,
                   finalizeCalls, rowCount, lateRoll>>

Committed(rows, done) ==
    [s \in Sessions |->
        IF \E d \in done : d.s = s
        THEN ClaimedRow(rows[s], (CHOOSE d \in done : d.s = s).owner)
        ELSE rows[s]]

\* the loop left after the first claim of the tick
TickCommit_OneClaimPerTick(t, ok) ==
    LET w == TickWorker(t)
        s == tx[t].rows[1]
    IN
    /\ PerRow
    /\ tx[t].pc = "locked"
    /\ isShuttingDownHelper[w] # "exited"
    /\ IF ok
       THEN /\ db' = Committed(db, tx[t].done)
            /\ RegisterAndPrompt(w, s)
       ELSE UNCHANGED <<db, activeHelperSessions, obj, stale, sends, upd, fin, ghost,
                        registered, finalizeCalls>>
    /\ tx' = [tx EXCEPT ![t] = IF ok THEN IdleTx ELSE [@ EXCEPT !.pc = "failed", !.done = {}]]
    /\ UNCHANGED <<notified, zeroRows, failures, liveAtShutdown,
                   dbPollingIntervalId, startup, received, priceFetch>>
    /\ UNCHANGED <<variant, jackpot_pool_ok, botUsername, isShuttingDownHelper, rowCount,
                   lateRoll>>

\* COMMIT of the claim, then the code up to the next await
TickCommit(t, ok) ==
    LET w == TickWorker(t)
        s == tx[t].rows[1]
    IN
    /\ PerRow
    /\ tx[t].pc = "locked"
    /\ isShuttingDownHelper[w] # "exited"
    /\ IF ok
       THEN /\ db' = Committed(db, tx[t].done)
            /\ RegisterAndPrompt(w, s)
            /\ tx' = [tx EXCEPT ![t] =
                        IF tx[t].n > 1 /\ tx[t].i < tx[t].n - 1
                        THEN [IdleTx EXCEPT !.pc = "sleep", !.w = w, !.i = tx[t].i,
                                            !.n = tx[t].n]
                        ELSE IdleTx]
       ELSE /\ tx' = [tx EXCEPT ![t] = [@ EXCEPT !.pc = "failed", !.done = {}]]
            /\ UNCHANGED <<db, activeHelperSessions, obj, stale, sends, upd, fin, ghost,
                           registered, finalizeCalls>>
    /\ UNCHANGED <<notified, zeroRows, failures, liveAtShutdown,
                   dbPollingIntervalId, startup, received, priceFetch>>
    /\ UNCHANGED <<variant, jackpot_pool_ok, botUsername, isShuttingDownHelper, rowCount,
                   lateRoll>>

\* the tick ends without ROLLBACK: the transaction stays open
TickRollback_KeepsLock(t) ==
    LET w == TickWorker(t) IN
    /\ PerRow
    /\ tx[t].pc \in {"lost", "failed"}
    /\ isShuttingDownHelper[w] # "exited"
    /\ tx' = [tx EXCEPT ![t] = [IdleTx EXCEPT !.rows = tx[t].rows]]
    /\ UNCHANGED <<notified, zeroRows, failures, liveAtShutdown,
                   dbPollingIntervalId, startup, received, priceFetch>>
    /\ UNCHANGED <<variant, db, jackpot_pool_ok, botUsername, isShuttingDownHelper,
                   activeHelperSessions, obj, stale, sends, upd, fin, ghost, registered,
                   finalizeCalls, rowCount, lateRoll>>

\* the ROLLBACK of an attempt that claimed nothing, in the else branch
\* (pc "lost") or in the catch block (pc "failed"), then finally and the test
\* after it: claimedSessionData is null and selectRes, declared inside the try
\* block, is not in scope, so the call rejects and the tick is over
TickRollback(t) ==
    LET w == TickWorker(t) IN
    /\ PerRow
    /\ tx[t].pc \in {"lost", "failed"}
    /\ isShuttingDownHelper[w] # "exited"
    /\ tx' = [tx EXCEPT ![t] = IdleTx]
    /\ UNCHANGED <<notified, zeroRows, failures, liveAtShutdown,
                   dbPollingIntervalId, startup, received, priceFetch>>
    /\ UNCHANGED <<variant, db, jackpot_pool_ok, botUsername, isShuttingDownHelper,
                   activeHelperSessions, obj, stale, sends, upd, fin, ghost, registered,
                   finalizeCalls, rowCount, lateRoll>>

\* end of sleep: i++, the loop test and the shutdown check of the next round
TickWake(t) ==
    LET w == TickWorker(t) IN
    /\ PerRow
    /\ tx[t].pc = "sleep"
    /\ isShuttingDownHelper[w] # "exited"
    /\ tx' = [tx EXCEPT ![t] =
                IF isShuttingDownHelper[w] = "flag"
                THEN IdleTx
                ELSE [@ EXCEPT !.pc = "connect", !.i = @ + 1]]
    /\ UNCHANGED <<notified, zeroRows, failures, liveAtShutdown,
                   dbPollingIntervalId, startup, received, priceFetch>>
    /\ UNCHANGED <<variant, db, jackpot_pool_ok, botUsername, isShuttingDownHelper,
                   activeHelperSessions, obj, stale, sends, upd, fin, ghost, registered,
                   finalizeCalls, rowCount, lateRoll>>

----------------------------------------------------------------------------------------------------------------------------------------------------
(* checkAndInitiateJackpotSessions in "batch": one transaction per tick *)

RECURSIVE OldestN(_, _)
\* ORDER BY created_at ASC LIMIT $1
OldestN(S, n) ==
    IF n = 0 \/ S = {} THEN <<>>
    ELSE <<Oldest(S)>> \o OldestN(S \ {Oldest(S)}, n - 1)

\* a store error is injected only while the sessions it hands back have been
\* stored fewer than MaxRegistrations times over all workers
CanFail(t) ==
    \A k \in 1..Len(tx[t].rows) :
        Registrations(tx[t].rows[k]) < MaxRegistrations

\* pool.connect() and the test of the Map's size.  A full Map releases the
\* client and returns; the finally block then calls release() on the released
\* client, which throws (pc "thrown").
BatchConnect(t, ok) ==
    LET w == TickWorker(t)
        activeSessionCount == Len(activeHelperSessions[w])
    IN
    /\ variant = "batch"
    /\ tx[t].pc = "connect"
    /\ isShuttingDownHelper[w] # "exited"
    /\ tx' = [tx EXCEPT ![t] =
                IF ~ok THEN IdleTx
                ELSE IF activeSessionCount >= MAX_SESSIONS_PER_CYCLE
                THEN [@ EXCEPT !.pc = "thrown"]
                ELSE [@ EXCEPT !.pc = "begin",
                               !.n = MAX_SESSIONS_PER_CYCLE - activeSessionCount]]
    /\ UNCHANGED <<notified, zeroRows, failures, liveAtShutdown,
                   dbPollingIntervalId, startup, received, priceFetch>>
    /\ UNCHANGED <<variant, db, jackpot_pool_ok, botUsername, isShuttingDownHelper,
                   activeHelperSessions, obj, stale, sends, upd, fin, ghost, registered,
                   finalizeCalls, rowCount, lateRoll>>

\* BEGIN, SELECT ... LIMIT $1 FOR UPDATE SKIP LOCKED and the head of the loop.
\* An empty result commits, releases the client and returns; the finally
\* block then calls release() on the released client, which throws.
BatchSelect(t, failure) ==
    LET w == TickWorker(t)
        rows == OldestN(Claimable, tx[t].n)
    IN
    /\ variant = "batch"
    /\ tx[t].pc = "begin"
    /\ isShuttingDownHelper[w] # "exited"
    /\ tx' = [tx EXCEPT ![t] =
                IF failure # "none" THEN IdleTx
                ELSE IF rows = <<>> THEN [@ EXCEPT !.pc = "thrown"]
                ELSE [@ EXCEPT !.rows = rows, !.i = 1,
                               !.pc = IF isShuttingDownHelper[w] = "flag"
                                      THEN "commit" ELSE "update"]]
    /\ UNCHANGED <<notified, zeroRows, failures, liveAtShutdown,
                   dbPollingIntervalId, startup, received, priceFetch>>
    /\ UNCHANGED <<variant, db, jackpot_pool_ok, botUsername, isShuttingDownHelper,
                   activeHelperSessions, obj, stale, sends, upd, fin, ghost, registered,
                   finalizeCalls, rowCount, lateRoll>>

\* the call has rejected with the error of the second release(); the
\* rejection reaches the handlers of the process and the tick is over
BatchRejected(t) ==
    /\ variant = "batch"
    /\ tx[t].pc = "thrown"
    /\ isShuttingDownHelper[TickWorker(t)] # "exited"
    /\ tx' = [tx EXCEPT ![t] = IdleTx]
    /\ UNCHANGED <<notified, zeroRows, failures, liveAtShutdown,
                   dbPollingIntervalId, startup, received, priceFetch>>
    /\ UNCHANGED <<variant, db, jackpot_pool_ok, botUsername, isShuttingDownHelper,
                   activeHelperSessions, obj, stale, sends, upd, fin, ghost, registered,
                   finalizeCalls, rowCount, lateRoll>>

\* the claiming UPDATE of one selected row, the registration and the opening
\* prompt, then the head of the loop for the next row.  An UPDATE that fails
\* aborts the transaction: every later statement of it fails too.
BatchUpdate(t, ok) ==
    LET w == TickWorker(t)
        s == tx[t].rows[tx[t].i]
        claimed == ok /\ ~tx[t].aborted
        more == tx[t].i < Len(tx[t].rows) /\ isShuttingDownHelper[w] = "no"
    IN
    /\ variant = "batch"
    /\ tx[t].pc = "update"
    /\ isShuttingDownHelper[w] # "exited"
    /\ ok \/ CanFail(t)
    /\ tx' = [tx EXCEPT ![t] =
                [@ EXCEPT !.done = IF claimed
                                   THEN @ \cup {[s |-> s, owner |-> botUsername[w]]}
                                   ELSE @,
                          !.aborted = @ \/ ~ok,
                          !.i = IF more THEN @ + 1 ELSE @,
                          !.pc = IF more THEN "update" ELSE "commit"]]
    /\ IF claimed
       THEN RegisterAndPrompt(w, s)
       ELSE UNCHANGED <<activeHelperSessions, obj, stale, sends, upd, fin, ghost,
                        registered, finalizeCalls>>
    /\ UNCHANGED <<notified, zeroRows, failures, liveAtShutdown,
                   dbPollingIntervalId, startup, received, priceFetch>>
    /\ UNCHANGED <<variant, db, jackpot_pool_ok, botUsername, isShuttingDownHelper,
                   rowCount, lateRoll>>

\* COMMIT; of an aborted transaction it is a ROLLBACK.  ok = FALSE: the COMMIT
\* fails and the claims are rolled back
BatchCommit(t, ok) ==
    LET w == TickWorker(t) IN
    /\ variant = "batch"
    /\ tx[t].pc = "commit"
    /\ isShuttingDownHelper[w] # "exited"
    /\ ok \/ CanFail(t)
    /\ db' = IF ok /\ ~tx[t].aborted THEN Committed(db, tx[t].done) ELSE db
    /\ tx' = [tx EXCEPT ![t] = IdleTx]
    /\ UNCHANGED <<notified, zeroRows, failures, liveAtShutdown,
                   dbPollingIntervalId, startup, received, priceFetch>>
    /\ UNCHANGED <<variant, jackpot_pool_ok, botUsername, isShuttingDownHelper,
                   activeHelperSessions, obj, stale, sends, upd, fin, ghost, registered,
                   finalizeCalls, rowCount, lateRoll>>

----
(* bot.getMe() and shutdownHelper *)

GetMe(w) ==
    /\ isShuttingDownHelper[w] # "exited"
    /\ botUsername[w] # MeUsername(w)
    /\ botUsername' = [botUsername EXCEPT ![w] = MeUsername(w)]
    /\ UNCHANGED <<notified, zeroRows, failures, liveAtShutdown,
                   dbPollingIntervalId, startup, received, priceFetch>>
    /\ UNCHANGED <<variant, db, jackpot_pool_ok, tx, isShuttingDownHelper,
                   activeHelperSessions, obj, stale, sends, upd, fin, ghost, registered,
                   finalizeCalls, rowCount, lateRoll>>

\* shutdownHelper(signal) up to its first await: the flag, clearInterval and
\* clearTimeout for every object in the Map
shutdownSequence(w, signal) ==
    /\ isShuttingDownHelper[w] = "no"
    /\ isShuttingDownHelper' = [isShuttingDownHelper EXCEPT ![w] = "flag"]
    /\ received' = [received EXCEPT ![w] = signal]
    /\ obj' = [obj EXCEPT ![w] =
                 [s \in Sessions |->
                    IF InMap(w, s) /\ obj[w][s].turnTimeoutId = "armed"
                    THEN [obj[w][s] EXCEPT !.turnTimeoutId = "dead"]
                    ELSE obj[w][s]]]
    /\ liveAtShutdown' = [liveAtShutdown EXCEPT ![w] = {s \in Sessions : InMap(w, s)}]
    /\ dbPollingIntervalId' = [dbPollingIntervalId EXCEPT ![w] =
                                 IF @ = "null" THEN @ ELSE "cleared"]
    /\ UNCHANGED <<notified, zeroRows, failures, startup, priceFetch>>
    /\ UNCHANGED <<variant, db, jackpot_pool_ok, tx, botUsername,
                   activeHelperSessions, stale, sends, upd, fin, ghost, registered,
                   finalizeCalls, rowCount, lateRoll>>

\* process.on('SIGINT') and process.on('SIGTERM')
shutdownHelper(w) ==
    /\ w \in SignalledWorkers
    /\ shutdownSequence(w, "SIGINT")

\* process.exit: the process is gone with everything it held in memory; the
\* store closes its connections and rolls their transactions back
Exited(w) ==
    /\ isShuttingDownHelper' = [isShuttingDownHelper EXCEPT ![w] = "exited"]
    /\ tx' = [t \in Ticks |-> IF TickWorker(t) = w THEN IdleTx ELSE tx[t]]
    /\ activeHelperSessions' = [activeHelperSessions EXCEPT ![w] = <<>>]
    /\ obj' = [obj EXCEPT ![w] = [s \in Sessions |-> NoObj]]
    /\ stale' = [stale EXCEPT ![w] = [s \in Sessions |-> 0]]
    /\ sends' = [sends EXCEPT ![w] = [s \in Sessions |-> 0]]
    /\ upd' = [upd EXCEPT ![w] = [s \in Sessions |-> NoUpd]]
    /\ fin' = [r \in {x \in BagToSet(fin) : x.w # w} |-> fin[r]]
    /\ ghost' = [g \in {x \in BagToSet(ghost) : x.w # w} |-> ghost[g]]
    /\ UNCHANGED <<notified, zeroRows, failures, liveAtShutdown,
                   dbPollingIntervalId, startup, received, priceFetch>>
    /\ UNCHANGED <<variant, db, jackpot_pool_ok, botUsername, registered, finalizeCalls,
                   rowCount, lateRoll>>

\* process.exit(1) straight from the handler, whatever the flag
uncaughtException_ExitsAtOnce(w) ==
    /\ w \in SignalledWorkers
    /\ isShuttingDownHelper[w] # "exited"
    /\ Exited(w)

\* process.on('uncaughtException'): shutdownHelper when the flag is not set,
\* process.exit(1) when it is
uncaughtException(w) ==
    /\ w \in SignalledWorkers
    /\ isShuttingDownHelper[w] # "exited"
    /\ IF isShuttingDownHelper[w] = "no"
       THEN shutdownSequence(w, "uncaughtException_exit")
       ELSE Exited(w)

\* pool.end() resolves once every client is back, or rejects at once when the
\* pool is already ending; then process.exit
ProcessExit(w) ==
    /\ isShuttingDownHelper[w] = "flag"
    /\ startup[w] # "query"
    /\ \A t \in Ticks : TickWorker(t) = w => LockedBy(t) = {}
    /\ Exited(w)

----------------------------------------------------------------------------
(* startHelperBot: the health check of the store, then setInterval *)

\* await pool.connect(): with ok the check goes on to its query, otherwise the
\* catch block starts pool.end() with no client checked out
startHelperBot_connect(w, ok) ==
    /\ isShuttingDownHelper[w] # "exited"
    /\ startup[w] = "connect"
    /\ startup' = [startup EXCEPT ![w] = IF ok THEN "query" ELSE "failed"]
    /\ UNCHANGED <<variant, db, jackpot_pool_ok, tx, botUsername, isShuttingDownHelper,
                   activeHelperSessions, obj, stale, sends, upd, fin, ghost, registered,
                   finalizeCalls, rowCount, lateRoll, notified, zeroRows, failures,
                   liveAtShutdown, dbPollingIntervalId, received, priceFetch>>

\* await dbClient.query('SELECT NOW()'): with ok the client is released and
\* setInterval starts the claim timer; otherwise the catch block starts
\* pool.end() while dbClient is still checked out
startHelperBot_query(w, ok) ==
    /\ isShuttingDownHelper[w] # "exited"
    /\ startup[w] = "query"
    /\ startup' = [startup EXCEPT ![w] = IF ok THEN "done" ELSE "failedHolding"]
    /\ dbPollingIntervalId' = [dbPollingIntervalId EXCEPT ![w] = IF ok THEN "set" ELSE @]
    /\ UNCHANGED <<variant, db, jackpot_pool_ok, tx, botUsername, isShuttingDownHelper,
                   activeHelperSessions, obj, stale, sends, upd, fin, ghost, registered,
                   finalizeCalls, rowCount, lateRoll, notified, zeroRows, failures,
                   liveAtShutdown, received, priceFetch>>

\* pool.end() of the catch block resolves, which it does once no client is
\* checked out, and process.exit(1) runs
startHelperBot_exit(w) ==
    /\ isShuttingDownHelper[w] # "exited"
    /\ startup[w] = "failed"
    /\ isShuttingDownHelper' = [isShuttingDownHelper EXCEPT ![w] = "exited"]
    /\ UNCHANGED <<variant, db, jackpot_pool_ok, tx, botUsername,
                   activeHelperSessions, obj, stale, sends, upd, fin, ghost, registered,
                   finalizeCalls, rowCount, lateRoll, notified, zeroRows, failures,
                   liveAtShutdown, dbPollingIntervalId, startup, received, priceFetch>>

----------------------------------------------------------------------------

(* The specifications.  Each fixes the variant that runs, the rows that are *)
(* enqueued and the events of the environment that are let in.             *)

\* ticks are interchangeable: the free one with the lowest number starts
LowestFree(t) == \A u \in Ticks : TickOrder(u) < TickOrder(t) => tx[u].pc # "idle"

Settlements == {"ok", "fatal", "transient"}

\* "main", one session enqueued: two workers, ticks that may overlap, failures
\* of the store and of the transport, getMe and the termination signal
Init == InitOf("main", {"s1"})

Next ==
    \/ \E t \in Ticks, w \in Workers : LowestFree(t) /\ TickStart(t, w)
    \/ \E t \in Ticks, a \in {"none", "connect"} : TickSelect(t, a)
    \/ \E t \in Ticks, ok \in BOOLEAN : TickCommit(t, ok)
    \/ \E t \in Ticks : TickRollback(t)
    \/ \E t \in Ticks : TickWake(t)
    \/ \E w \in Workers, p \in Players, v \in 1..MaxDice : Roll(w, p, v)
    \/ \E w \in Workers, s \in Sessions : TimerFire(w, s, "ref")
    \/ \E w \in Workers, s \in Sessions, o \in Settlements : SendSettle(w, s, o)
    \/ \E r \in BagToSet(fin), ok \in BOOLEAN : FinalizeWrite(r, ok)
    \/ \E w \in Workers : GetMe(w)
    \/ \E w \in Workers : shutdownHelper(w)
    \/ \E w \in Workers : ProcessExit(w)

Spec == Init /\ [][Next]_vars

\* "price", one session enqueued: the ticks of one worker, one after the other
InitPrice == InitOf("price", {"s1"})

NextPrice ==
    \/ TickStart("t1", "w1")
    \/ \E t \in Ticks, a \in {"none", "connect"} : TickSelect(t, a)
    \/ \E t \in Ticks, ok \in BOOLEAN : TickCommit(t, ok)
    \/ \E t \in Ticks : TickRollback(t)
    \/ \E t \in Ticks : TickWake(t)
    \/ \E w \in Workers, p \in Players, v \in 1..MaxDice : Roll(w, p, v)
    \/ \E w \in Workers, s \in Sessions, which \in {"ref", "stale"} : TimerFire(w, s, which)
    \/ \E w \in Workers, s \in Sessions, o \in {"ok", "fatal"} : SendSettle(w, s, o)
    \/ \E w \in Workers, s \in Sessions, k \in {"init", "roll"}, ok \in BOOLEAN :
          PriceResume(w, s, k, ok)
    \/ \E r \in BagToSet(fin), ok \in BOOLEAN : FinalizeWrite(r, ok)

SpecPrice == InitPrice /\ [][NextPrice]_vars

\* "batch", one session enqueued: two workers, one tick at a time
InitBatch == InitOf("batch", {"s1"})

NextBatch ==
    \/ \E w \in Workers : TickStart("t1", w)
    \/ \E t \in Ticks, ok \in BOOLEAN : BatchConnect(t, ok)
    \/ \E t \in Ticks, f \in {"none", "BEGIN", "SELECT"} : BatchSelect(t, f)
    \/ \E t \in Ticks : BatchRejected(t)
    \/ \E t \in Ticks, ok \in BOOLEAN : BatchUpdate(t, ok)
    \/ \E t \in Ticks, ok \in BOOLEAN : BatchCommit(t, ok)
    \/ \E w \in Workers, p \in Players, v \in 1..MaxDice : Roll(w, p, v)
    \/ \E w \in Workers, s \in Sessions, which \in {"ref", "stale"} : TimerFire(w, s, which)
    \/ \E w \in Workers, s \in Sessions : SendSettle(w, s, "ok")
    \/ \E g \in BagToSet(ghost), o \in {"ok", "fatal"} : GhostSettle(g, o)
    \/ \E r \in BagToSet(fin), ok \in BOOLEAN : FinalizeWrite(r, ok)

SpecBatch == InitBatch /\ [][NextBatch]_vars

\* "main", both sessions enqueued
InitTwo == InitOf("main", {"s1", "s2"})

NextTwo ==
    \/ \E t \in Ticks, w \in Workers : LowestFree(t) /\ TickStart(t, w)
    \/ \E t \in Ticks, a \in {"none", "connect"} : TickSelect(t, a)
    \/ \E t \in Ticks, ok \in BOOLEAN : TickCommit(t, ok)
    \/ \E t \in Ticks : TickRollback(t)
    \/ \E t \in Ticks : TickWake(t)
    \/ \E w \in Workers, p \in Players, v \in 1..MaxDice : Roll(w, p, v)
    \/ \E w \in Workers, s \in Sessions : TimerFire(w, s, "ref")
    \/ \E w \in Workers, s \in Sessions : SendSettle(w, s, "ok")
    \/ \E r \in BagToSet(fin) : FinalizeWrite(r, TRUE)

SpecTwo == InitTwo /\ [][NextTwo]_vars

\* "main", three sessions enqueued and one worker whose interval fires while
\* an earlier tick is still awaiting the store; the store answers every
\* statement, no signal arrives and the players let their turns time out
InitThree == InitOf("main", {"s1", "s2", "s3"})

NextThree ==
    \/ \E t \in Ticks : LowestFree(t) /\ TickStart(t, "w1")
    \/ \E t \in Ticks : TickSelect(t, "none")
    \/ \E t \in Ticks : TickCommit(t, TRUE)
    \/ \E t \in Ticks : TickWake(t)
    \/ \E s \in Sessions : TimerFire("w1", s, "ref")
    \/ \E r \in BagToSet(fin) : FinalizeWrite(r, TRUE)

SpecThree == InitThree /\ [][NextThree]_vars

\* the store answers every statement of a tick and the sleep of the loop ends
FairThree ==
    \A t \in Ticks : WF_vars(TickSelect(t, "none") \/ TickCommit(t, TRUE) \/ TickWake(t))

SpecThreeFair == InitThree /\ [][NextThree]_vars /\ FairThree

\* "main" from the start of the processes: the health check may fail, ticks
\* run once the claim timer is set, a signal may arrive at any moment
InitStartup ==
    /\ InitState("main", {"s1"})
    /\ dbPollingIntervalId = [w \in Workers |-> "null"]
    /\ startup = [w \in Workers |-> "connect"]

NextStartup ==
    \/ \E w \in Workers, ok \in BOOLEAN : startHelperBot_connect(w, ok)
    \/ \E w \in Workers, ok \in BOOLEAN : startHelperBot_query(w, ok)
    \/ \E w \in Workers : startHelperBot_exit(w)
    \/ \E t \in Ticks, w \in Workers : LowestFree(t) /\ TickStart(t, w)
    \/ \E t \in Ticks : TickSelect(t, "none")
    \/ \E t \in Ticks : TickCommit(t, TRUE)
    \/ \E t \in Ticks : TickWake(t)
    \/ \E w \in Workers, s \in Sessions : TimerFire(w, s, "ref")
    \/ \E r \in BagToSet(fin) : FinalizeWrite(r, TRUE)
    \/ \E w \in Workers : shutdownHelper(w)
    \/ \E w \in Workers : uncaughtException(w)
    \/ \E w \in Workers : ProcessExit(w)

SpecStartup == InitStartup /\ [][NextStartup]_vars

\* every await of startHelperBot settles, and a pool.end() that can resolve
\* does
FairStartup ==
    \A w \in Workers :
        /\ WF_vars(\E ok \in BOOLEAN : startHelperBot_connect(w, ok))
        /\ WF_vars(\E ok \in BOOLEAN : startHelperBot_query(w, ok))
        /\ WF_vars(startHelperBot_exit(w))

SpecStartupFair == InitStartup /\ [][NextStartup]_vars /\ FairStartup

\* "main", both sessions enqueued and one worker: every answer of the store to
\* a claim attempt; the players let their turns time out
InitStore == InitOf("main", {"s1", "s2"})

NextStore ==
    \/ \E t \in Ticks : LowestFree(t) /\ TickStart(t, "w1")
    \/ \E t \in Ticks, a \in ClaimAnswers : TickSelect(t, a)
    \/ \E t \in Ticks, ok \in BOOLEAN : TickCommit(t, ok)
    \/ \E t \in Ticks : TickRollback(t)
    \/ \E t \in Ticks : TickWake(t)
    \/ \E s \in Sessions : TimerFire("w1", s, "ref")
    \/ \E r \in BagToSet(fin) : FinalizeWrite(r, TRUE)

SpecStore == InitStore /\ [][NextStore]_vars

\* "main", both sessions enqueued and one worker that comes to run both, its
\* ticks one after the other: rolls, timeouts, prompt deliveries that fail and
\* store writes that fail
InitContain == InitOf("main", {"s1", "s2"})

NextContain ==
    \/ TickStart("t1", "w1")
    \/ \E t \in Ticks : TickSelect(t, "none")
    \/ \E t \in Ticks : TickCommit(t, TRUE)
    \/ \E t \in Ticks : TickWake(t)
    \/ \E p \in Players, v \in 1..MaxDice : Roll("w1", p, v)
    \/ \E s \in Sessions : TimerFire("w1", s, "ref")
    \/ \E s \in Sessions, o \in Settlements : SendSettle("w1", s, o)
    \/ \E r \in BagToSet(fin), ok \in BOOLEAN : FinalizeWrite(r, ok)

SpecContain == InitContain /\ [][NextContain]_vars

\* "main", one session and one worker that neither shuts down nor crashes, its
\* ticks one after the other: rolls, timeouts, deliveries and store writes that
\* succeed or fail
InitOrphan == InitOf("main", {"s1"})

NextOrphan ==
    \/ TickStart("t1", "w1")
    \/ \E t \in Ticks : TickSelect(t, "none")
    \/ \E t \in Ticks : TickCommit(t, TRUE)
    \/ \E t \in Ticks : TickWake(t)
    \/ \E p \in Players, v \in 1..MaxDice : Roll("w1", p, v)
    \/ \E s \in Sessions : TimerFire("w1", s, "ref")
    \/ \E s \in Sessions, o \in Settlements : SendSettle("w1", s, o)
    \/ \E r \in BagToSet(fin), ok \in BOOLEAN : FinalizeWrite(r, ok)

SpecOrphan == InitOrphan /\ [][NextOrphan]_vars

\* every await of a tick settles, every armed timer fires, every delivery and
\* every store write of a finalize call settles, with success or with an error
FairOrphan ==
    /\ \A t \in Ticks : WF_vars(TickSelect(t, "none") \/ TickCommit(t, TRUE) \/ TickWake(t))
    /\ \A s \in Sessions : WF_vars(TimerFire("w1", s, "ref"))
    /\ \A s \in Sessions : WF_vars(\E o \in Settlements : SendSettle("w1", s, o))
    /\ WF_vars(\E r \in BagToSet(fin), ok \in BOOLEAN : FinalizeWrite(r, ok))

SpecOrphanFair == InitOrphan /\ [][NextOrphan]_vars /\ FairOrphan

----------------------------------------------------------------------------
(* fetchSolUsdPriceFromAPIForHelper of "price": one call, its requests      *)

PRICE_FETCH_RETRIES == 3
PRICE_FETCH_INITIAL_DELAY_MS == 2000
PRICE_FETCH_MAX_DELAY_MS == 30000

\* status of an attempt that got no response (network error, axios timeout)
NoResponse == 0
\* statusCode when the caught error has no response property
NullStatus == 0
\* the retry-after header: none, one parseInt turns into NaN, or seconds
RetryAfterAbsent == -1
RetryAfterNaN == -2
RetryAfterSeconds == {5, 60}

\* what one axios.get can end with: no response, a 2xx response whose data
\* has a positive price, a price that is not positive or no price at all,
\* or a response outside 2xx, which axios rejects with error.response set
Responses ==
    {[status |-> NoResponse, data |-> "none", retryAfter |-> RetryAfterAbsent]}
    \cup {[status |-> 200, data |-> d, retryAfter |-> RetryAfterAbsent] :
             d \in {"price", "nonpositive", "malformed"}}
    \cup {[status |-> c, data |-> "none", retryAfter |-> RetryAfterAbsent] : c \in {404, 503}}
    \cup {[status |-> 429, data |-> "none", retryAfter |-> a] :
             a \in {RetryAfterAbsent, RetryAfterNaN} \cup RetryAfterSeconds}

\* the attempt returns the price: the three tests of the try block pass
Succeeds(r) == r.status = 200 /\ r.data = "price"

\* error.response ? error.response.status : null.  The errors thrown inside
\* the try block for a 2xx response are plain Errors without a response
statusCode(r) == IF r.status \in {NoResponse, 200} THEN NullStatus ELSE r.status

isRetryableError(code) ==
    code = 429 \/ code = NullStatus \/ (code >= 500 /\ code <= 599)

RECURSIVE Pow2(_)
Pow2(n) == IF n = 0 THEN 1 ELSE 2 * Pow2(n - 1)

\* the backoff, the Retry-After of a 429 when it parses, and the cap
delayMs(r, attempt) ==
    LET backoff == PRICE_FETCH_INITIAL_DELAY_MS * Pow2(attempt - 1)
        d == IF statusCode(r) = 429 /\ r.retryAfter \in RetryAfterSeconds
             THEN (r.retryAfter * 1000) + 1000
             ELSE backoff
    IN Min(d, PRICE_FETCH_MAX_DELAY_MS)

\* the call: lastError = null and the loop entered with attempt = 1
fetchSolUsdPriceFromAPIForHelper ==
    /\ priceFetch.pc = "idle"
    /\ priceFetch' = [NoFetch EXCEPT
                         !.attempt = 1,
                         !.pc = IF 1 <= PRICE_FETCH_RETRIES + 1 THEN "request" ELSE "raised"]
    /\ UNCHANGED <<variant, db, jackpot_pool_ok, tx, botUsername, isShuttingDownHelper,
                   activeHelperSessions, obj, stale, sends, upd, fin, ghost, registered,
                   finalizeCalls, rowCount, lateRoll, notified, zeroRows, failures,
                   liveAtShutdown, dbPollingIntervalId, startup, received>>

\* await axios.get settles with r: return price, or the catch block with its
\* choice between the delay, the break and the end of the loop
FetchSettle(r) ==
    /\ priceFetch.pc = "request"
    /\ LET a == priceFetch.attempt
           made == [priceFetch EXCEPT !.requests = @ + 1, !.log = Append(@, r)]
       IN
       priceFetch' =
          IF Succeeds(r) THEN [made EXCEPT !.pc = "returned"]
          ELSE IF a <= PRICE_FETCH_RETRIES
          THEN IF isRetryableError(statusCode(r))
               THEN [made EXCEPT !.lastError = <<r>>, !.pc = "delay",
                                 !.delayMs = delayMs(r, a)]
               ELSE [made EXCEPT !.lastError = <<r>>, !.pc = "raised"]
          ELSE [made EXCEPT !.lastError = <<r>>, !.attempt = a + 1, !.pc = "raised"]
    /\ UNCHANGED <<variant, db, jackpot_pool_ok, tx, botUsername, isShuttingDownHelper,
                   activeHelperSessions, obj, stale, sends, upd, fin, ghost, registered,
                   finalizeCalls, rowCount, lateRoll, notified, zeroRows, failures,
                   liveAtShutdown, dbPollingIntervalId, startup, received>>

\* the setTimeout of the delay fires: continue, attempt++ and the loop test
FetchDelayEnd ==
    /\ priceFetch.pc = "delay"
    /\ priceFetch' = [priceFetch EXCEPT
                         !.attempt = @ + 1,
                         !.delayMs = 0,
                         !.pc = IF priceFetch.attempt + 1 <= PRICE_FETCH_RETRIES + 1
                                THEN "request" ELSE "raised"]
    /\ UNCHANGED <<variant, db, jackpot_pool_ok, tx, botUsername, isShuttingDownHelper,
                   activeHelperSessions, obj, stale, sends, upd, fin, ghost, registered,
                   finalizeCalls, rowCount, lateRoll, notified, zeroRows, failures,
                   liveAtShutdown, dbPollingIntervalId, startup, received>>

\* one call of the price fetch, with every way its requests can end
InitFetch == InitOf("price", {"s1"})

NextFetch ==
    \/ fetchSolUsdPriceFromAPIForHelper
    \/ \E r \in Responses : FetchSettle(r)
    \/ FetchDelayEnd

SpecFetch == InitFetch /\ [][NextFetch]_vars

\* axios.get has a timeout of 10 s and the delay is a setTimeout: both end
FairFetch ==
    /\ WF_vars(fetchSolUsdPriceFromAPIForHelper)
    /\ WF_vars(\E r \in Responses : FetchSettle(r))
    /\ WF_vars(FetchDelayEnd)

SpecFetchFair == InitFetch /\ [][NextFetch]_vars /\ FairFetch

----------------------------------------------------------------------------
(* The claims *)

\* the claim attempts that hold the row of s locked
Holders(s) == {t \in Ticks : s \in LockedBy(t)}

\* C1: exclusivity of claim.  Over all workers and all ticks, overlapping or
\* not, at most one claim attempt holds a session or has received it: a row
\* that is still pending_pickup has been received by nobody, a row that left
\* pending_pickup has been received exactly once, and no second attempt holds
\* the row of a session that was received.  (A session that was never
\* enqueued has no row.)
C1_ExclusiveClaim ==
    \A s \in Sessions :
        /\ Cardinality(Holders(s)) + Registrations(s) <= 1
        /\ db[s].status = "pending_pickup" => Registrations(s) = 0
        /\ db[s].status \notin {"pending_pickup", NoRow.status} => Registrations(s) = 1

\* C1 witness: two attempts in progress at once, the second one skipped the
\* row the first one holds and took the other row
C1_SkippedLockedRow ==
    /\ tx["t1"].pc = "locked" /\ tx["t2"].pc = "locked"
    /\ tx["t1"].rows = <<"s1">> /\ tx["t2"].rows = <<"s2">>

\* the workers whose Map holds s
LiveIn(s) == {w \in Workers : InMap(w, s)}

\* C2: in every reachable state a session is in the live table of at most one
\* worker, also after a COMMIT of the claim that failed or was rolled back
C2_OneLiveTable == \A s \in Sessions : Cardinality(LiveIn(s)) <= 1

\* C3: once the row of a session holds a terminal status, no step changes
\* its status, final_score, final_rolls_json or outcome_notes
C3_TerminalRowFrozen ==
    [][\A s \in Sessions : db[s].status \in TerminalStatuses => db'[s] = db[s]]_vars

\* C4: of the finalize calls one worker makes for one session, at most one
\* store update affects a row; a second call observes zero rows affected
C4_SecondFinalizeAffectsNoRow ==
    \A w \in Workers, s \in Sessions : rowCount[w][s] <= 1

\* the rolls the worker that received s accepted during the run
RunRolls(w, s) == obj[w][s].jackpot_run_rolls

\* C5: whatever a terminal row finally stores as final_rolls_json is the
\* initial rolls of the session followed by the rolls accepted during the
\* run, in order (compared while the worker that ran the session is alive)
C5_RollsRoundTrip ==
    \A w \in Workers, s \in Sessions :
        (/\ registered[w][s] > 0
         /\ isShuttingDownHelper[w] # "exited"
         /\ db[s].status \in TerminalStatuses)
        => db[s].final_rolls_json =
              JSONstringify(JSONparse(OrEmptyArray(initial_rolls_json(s))) \o RunRolls(w, s))

\* a step in which the roll handler of w accepted the roll v for s
Accepted(w, s, v) ==
    /\ isShuttingDownHelper'[w] # "exited"
    /\ RunRolls(w, s)' = Append(RunRolls(w, s), v)

\* C6: bust precedence.  A step that accepts a roll equal to bust_on_value
\* hands the session to the finalizer as completed_bust and removes it from
\* the Map, whatever the total, and no such roll is ever handed over as
\* completed_target_reached.
C6_BustPrecedence ==
    [][\A w \in Workers, s \in Sessions :
          Accepted(w, s, bust_on_value(s)) =>
             /\ finalizeCalls'[w][s] = Append(finalizeCalls[w][s], "completed_bust")
             /\ ~InMap(w, s)'
             /\ \A r \in BagToSet(fin') :
                   (r.w = w /\ r.s = s /\ ~BagIn(r, fin)) => r.finalStatus = "completed_bust"]_vars

\* C6 witness: a bust whose roll also took the total to the target
C6_BustAtTarget ==
    \E w \in Workers :
        /\ finalizeCalls[w]["s1"] = <<"completed_bust">>
        /\ RunRolls(w, "s1") = <<2, 1>>
        /\ obj[w]["s1"].current_total_score >= target_jackpot_score("s1")

PendingTimers(w, s) == (IF obj[w][s].turnTimeoutId = "armed" THEN 1 ELSE 0) + stale[w][s]

\* C8: single timer.  In every reachable state at most one inactivity timer
\* is pending for a session, also when a roll arrives while an earlier prompt
\* update is suspended between clearing the old timer and arming the new one.
C8_SingleTimer == \A w \in Workers, s \in Sessions : PendingTimers(w, s) <= 1

\* the number of finalize calls of w for s with the given status
CallsWith(w, s, status) ==
    Cardinality({k \in 1..Len(finalizeCalls[w][s]) : finalizeCalls[w][s][k] = status})

TimeoutInFlight(w, s) ==
    \E r \in BagToSet(fin) : r.w = w /\ r.s = s /\ r.finalStatus = "completed_timeout_forfeit"

\* C9: timeout fires once.  A session is handed to the finalizer as
\* completed_timeout_forfeit at most once, and while the store write of that
\* finalize is in flight no step changes the rolls or the scores of the
\* session or makes a roll hand it to the finalizer again.
C9_TimeoutOnce ==
    [][\A w \in Workers, s \in Sessions :
          /\ CallsWith(w, s, "completed_timeout_forfeit")' <= 1
          /\ (TimeoutInFlight(w, s) /\ isShuttingDownHelper'[w] # "exited") =>
                /\ RunRolls(w, s)' = RunRolls(w, s)
                /\ obj'[w][s].jackpot_run_score = obj[w][s].jackpot_run_score
                /\ obj'[w][s].current_total_score = obj[w][s].current_total_score
                /\ CallsWith(w, s, "completed_bust")' = CallsWith(w, s, "completed_bust")
                /\ CallsWith(w, s, "completed_target_reached")'
                      = CallsWith(w, s, "completed_target_reached")]_vars

\* C9 witness: the timer fired, the write is in flight and a roll of the
\* player was handled meanwhile
C9_RollDuringTimeoutWrite ==
    \E w \in Workers :
        /\ finalizeCalls[w]["s1"] = <<"completed_timeout_forfeit">>
        /\ TimeoutInFlight(w, "s1")
        /\ lateRoll[w]["s1"]

\* C10: no stale timer.  Once a session has been handed to the finalizer, no
\* inactivity timer of it is pending in any later state.
C10_NoTimerAfterFinalize ==
    \A w \in Workers, s \in Sessions : finalizeCalls[w][s] # <<>> => PendingTimers(w, s) = 0

\* C11: removal on finalize.  A session that has been handed to the finalizer
\* is out of the worker's live table, before the store write is issued and
\* whatever the write does, and it is absent in every later state: no
\* suspended prompt update puts it back.
C11_RemovedStaysRemoved ==
    \A w \in Workers, s \in Sessions : finalizeCalls[w][s] # <<>> => ~InMap(w, s)

\* C12: an unmatched roll is ignored.  A roll whose (player, chat) matches no
\* session of the worker's live table changes nothing: a step accepts a roll
\* only into the first session of the live table that matches the player, and
\* the step that handles a roll matching none, which the model records in
\* lateRoll when a finalize write of the player is in flight, leaves every
\* session record, timer, store row, finalize call and prompt as it was.
C12_UnmatchedRollIgnored ==
    [][/\ \A w \in Workers, s \in Sessions, v \in 1..MaxDice :
             Accepted(w, s, v) =>
                 /\ InMap(w, s)
                 /\ s = FirstMatch(activeHelperSessions[w], UserChat(s))
       /\ lateRoll' # lateRoll =>
             UNCHANGED <<variant, db, jackpot_pool_ok, tx, botUsername, isShuttingDownHelper,
                         activeHelperSessions, obj, stale, sends, upd, fin, ghost,
                         registered, finalizeCalls, rowCount, notified, zeroRows,
                         failures, liveAtShutdown,
                   dbPollingIntervalId, startup, received, priceFetch>>]_vars

\* C12 witness: the player busted, the session left the live table, and a
\* further roll of the player found no session
C12_RollAfterBust ==
    \E w \in Workers :
        /\ lateRoll[w]["s1"]
        /\ ~InMap(w, "s1")
        /\ finalizeCalls[w]["s1"] = <<"completed_bust">>

C15_ConflictDoesNotAbort ==
    [][\A t \in Ticks :
          (tx[t].pc = "lost" /\ tx'[t] # tx[t]) =>
              /\ db' = db
              /\ registered' = registered
              /\ activeHelperSessions' = activeHelperSessions
              /\ LockedBy(t)' = {}
              /\ IF tx[t].i < tx[t].n - 1
                 THEN tx'[t].pc = "sleep" /\ tx'[t].i = tx[t].i /\ tx'[t].n = tx[t].n
                 ELSE tx'[t].pc = "idle"]_vars

\* C16: store error during claim.  When connect, BEGIN, SELECT, UPDATE or
\* COMMIT of a claim attempt fails, no row changes and no session is added to
\* a live table, neither by the step that fails nor by the rollback that
\* follows it; after the rollback the attempt holds no lock, the row it had
\* selected is pending and unlocked as before the attempt, so that a later
\* tick can claim it, and the tick is over, so that the next firing of the
\* interval finds nothing in its way.
C16_StoreErrorDuringClaim ==
    [][\A t \in Ticks :
          /\ (\/ tx[t].pc \in {"connect", "locked"} /\ tx'[t].pc = "failed"
              \/ tx[t].pc = "connect" /\ tx'[t].pc = "idle") =>
                 /\ db' = db
                 /\ registered' = registered
                 /\ activeHelperSessions' = activeHelperSessions
          /\ (tx[t].pc = "failed" /\ tx'[t] # tx[t]) =>
                 /\ db' = db
                 /\ registered' = registered
                 /\ activeHelperSessions' = activeHelperSessions
                 /\ tx'[t].pc = "idle"
                 /\ \A s \in LockedBy(t) :
                       /\ db'[s].status = "pending_pickup"
                       /\ s \in Claimable']_vars

\* C16 witness: an attempt whose UPDATE or COMMIT failed awaits its ROLLBACK
\* with s1 selected and still pending
C16_FailedAttempt ==
    \E t \in Ticks :
        /\ tx[t].pc = "failed"
        /\ tx[t].rows = <<"s1">>
        /\ db["s1"].status = "pending_pickup"
        /\ \A w \in Workers : ~InMap(w, "s1")

\* C17: connection release.  Every connection a claim attempt or a finalize
\* acquires is released exactly once on every exit path: no tick that is over
\* still holds a transaction, and release() is never called on a client that
\* was already released.
C17_ReleasedExactlyOnce ==
    \A t \in Ticks :
        /\ tx[t].pc = "idle" => LockedBy(t) = {}
        /\ tx[t].pc # "thrown"

ErrorStatuses == {"error_helper_init_prompt", "error_sending_message"}

\* C18: opening prompt failure.  Every claimed session whose opening prompt
\* fails to be delivered, because building it throws or because its delivery
\* fails, is handed to the finalizer with an error outcome.  (With no roll
\* accepted yet, the opening prompt is the only prompt of the session.)
C18_OpeningFailureFinalizes ==
    \A w \in Workers, s \in Sessions :
        (/\ isShuttingDownHelper[w] # "exited"
         /\ registered[w][s] > 0
         /\ RunRolls(w, s) = <<>>
         /\ (failures[w][s] # {} \/ ~jackpot_pool_ok[s])) =>
            \E k \in 1..Len(finalizeCalls[w][s]) : finalizeCalls[w][s][k] \in ErrorStatuses

\* C20: ownership lost at finalize.  The step in which a finalize UPDATE of a
\* worker affects zero rows sends no outcome notification, issues no further
\* write (the record of the write leaves the writes in flight and none is
\* added), and changes no row and no other state of any worker.
C20_OwnershipLostAtFinalize ==
    [][\A w \in Workers, s \in Sessions :
          (zeroRows'[w][s] /\ ~zeroRows[w][s]) =>
              /\ notified' = notified
              /\ db' = db
              /\ \E r \in BagToSet(fin) : r.w = w /\ r.s = s /\ fin' = fin (-) SetToBag({r})
              /\ UNCHANGED <<variant, jackpot_pool_ok, tx, botUsername, isShuttingDownHelper,
                             activeHelperSessions, obj, stale, sends, upd, ghost, registered,
                             finalizeCalls, rowCount, lateRoll, failures,
                             liveAtShutdown,
                   dbPollingIntervalId, startup, received, priceFetch>>]_vars

\* C20 witness: a finalize UPDATE of w for s1 has affected zero rows: the row
\* is terminal under another helper name, and no write of w for s1 is in flight
C20_ZeroRowFinalize ==
    \E w \in Workers :
        /\ zeroRows[w]["s1"]
        /\ db["s1"].status \in TerminalStatuses
        /\ db["s1"].helper_bot_id # botUsername[w]
        /\ ~\E r \in BagToSet(fin) : r.w = w /\ r.s = "s1"

\* the outcome notifications sent for s, over all workers
Notifications(s) == SumOver(Workers, [w \in Workers |-> notified[w][s]])

\* the finalize UPDATEs that took effect on the row of s, over all workers
WritesInEffect(s) == SumOver(Workers, [w \in Workers |-> rowCount[w][s]])

\* C21: outcome notification exactly once.  Over the whole life of a session
\* the outcome notification is sent once when a finalize write of it has
\* taken effect, and never more than once in total, under any interleaving
\* of rolls, timeouts and delivery-failure callbacks.
C21_NotificationOnce ==
    \A s \in Sessions :
        /\ Notifications(s) <= 1
        /\ WritesInEffect(s) > 0 => Notifications(s) = 1

\* C22: shutdown does not finalize.  The shutdown step cancels every pending
\* inactivity timer of the sessions in the Map and changes no row; from then
\* on every session that was in the Map when shutdown started keeps the
\* status active_by_helper in the store, and the worker hands no session to
\* the finalizer as completed_timeout_forfeit.
C22_ShutdownDoesNotFinalize ==
    [][\A w \in Workers :
          /\ (isShuttingDownHelper[w] = "no" /\ isShuttingDownHelper'[w] = "flag") =>
                /\ db' = db
                /\ \A s \in Sessions : InMap(w, s) => PendingTimers(w, s)' = 0
          /\ isShuttingDownHelper'[w] # "no" =>
                \A s \in liveAtShutdown'[w] : db'[s].status = "active_by_helper"
          /\ isShuttingDownHelper[w] # "no" =>
                \A s \in Sessions :
                    CallsWith(w, s, "completed_timeout_forfeit")' =
                        CallsWith(w, s, "completed_timeout_forfeit")]_vars

\* C23: no claim after shutdown.  Once the shutdown flag of a worker is set,
\* no claim attempt of that worker, also one of a tick already in progress,
\* moves a row from pending_pickup to active_by_helper, and no session is
\* added to the Map of the worker.
C23_NoClaimAfterShutdown ==
    [][\A w \in Workers :
          isShuttingDownHelper[w] # "no" =>
              \A s \in Sessions :
                  /\ InMap(w, s)' => InMap(w, s)
                  /\ ~ /\ db[s].status = "pending_pickup"
                       /\ db'[s].status = "active_by_helper"
                       /\ \E t \in Ticks : tx[t].w = w /\ s \in LockedBy(t)]_vars

\* the health check of the store failed for w
StartupFailed(w) == startup[w] \in {"failed", "failedHolding"}

\* C24: fatal startup.  When the health check of the store fails, the claim
\* timer of the worker is never started and the worker never attempts a
\* claim, and the process closes the pool and exits.
C24_FatalStartup ==
    /\ [](\A w \in Workers :
             StartupFailed(w) =>
                 /\ dbPollingIntervalId[w] = "null"
                 /\ \A t \in Ticks : tx[t].w # w
                 /\ \A s \in Sessions : registered[w][s] = 0)
    /\ \A w \in Workers : StartupFailed(w) ~> isShuttingDownHelper[w] = "exited"

C24_NoClaimTimerAfterFailure ==
    \A w \in Workers :
        StartupFailed(w) =>
            /\ dbPollingIntervalId[w] = "null"
            /\ \A t \in Ticks : tx[t].w # w
            /\ \A s \in Sessions : registered[w][s] = 0

\* a step of w that is about session s: a roll accepted for s, s handed to the
\* finalizer (bust, target, timeout, delivery failure), a prompt delivery of s
\* that settles, or a finalize write of s that settles, failed or not
StepAbout(w, s) ==
    \/ RunRolls(w, s)' # RunRolls(w, s)
    \/ finalizeCalls'[w][s] # finalizeCalls[w][s]
    \/ sends'[w][s] < sends[w][s]
    \/ \E r \in BagToSet(fin) : r.w = w /\ r.s = s /\ CopiesIn(r, fin') < CopiesIn(r, fin)

\* C25: per-session containment.  A roll, a timeout, a delivery failure or a
\* failed finalize write of one session leaves every other session of the
\* same worker as it was (its rolls, run score and total, its pending timer,
\* its place in the Map, its row in the store) and does not stop the claim
\* timer of the worker.
C25_PerSessionContainment ==
    [][\A w \in Workers, s \in Sessions :
          StepAbout(w, s) =>
              /\ \A x \in Sessions \ {s} :
                    /\ obj'[w][x] = obj[w][x]
                    /\ PendingTimers(w, x)' = PendingTimers(w, x)
                    /\ InMap(w, x)' = InMap(w, x)
                    /\ db'[x] = db[x]
              /\ dbPollingIntervalId'[w] = dbPollingIntervalId[w]
              /\ isShuttingDownHelper'[w] = isShuttingDownHelper[w]]_vars

\* s1 runs on with a roll accepted and its timer pending after s2, run by the
\* same worker, timed out, had a prompt delivery fail and was written as
\* forfeited
C25_OtherSessionRunsOn ==
    /\ InMap("w1", "s1")
    /\ RunRolls("w1", "s1") # <<>>
    /\ PendingTimers("w1", "s1") = 1
    /\ db["s1"].status = "active_by_helper"
    /\ finalizeCalls["w1"]["s2"] # <<>>
    /\ failures["w1"]["s2"] # {}
    /\ db["s2"].status \in TerminalStatuses

\* C26: non-terminal roll.  A step that accepts a roll v other than
\* bust_on_value with initial score + run score + v below the target appends
\* v and nothing else to the rolls, keeps the session in the Map, leaves
\* exactly one timer pending (the previous one cancelled, a new one armed),
\* emits a prompt, hands nothing to the finalizer and writes nothing to the
\* store.
C26_NonTerminalRoll ==
    [][\A w \in Workers, s \in Sessions, v \in 1..MaxDice :
          (/\ Accepted(w, s, v)
           /\ v # bust_on_value(s)
           /\ initial_score(s) + obj[w][s].jackpot_run_score + v < target_jackpot_score(s)) =>
              /\ InMap(w, s)'
              /\ obj'[w][s].turnTimeoutId = "armed"
              /\ PendingTimers(w, s)' = 1
              /\ sends'[w][s] = Min(sends[w][s] + 1, MaxUnsettled)
              /\ finalizeCalls' = finalizeCalls
              /\ fin' = fin
              /\ db' = db
              /\ rowCount' = rowCount]_vars

\* C26 witness: s1 after the roll 2 that takes 7 to 9, below the target 10:
\* live, its timer pending, its prompt out, its row as the claim left it
C26_LiveBelowTarget ==
    \E w \in Workers :
        /\ InMap(w, "s1")
        /\ RunRolls(w, "s1") = <<2>>
        /\ obj[w]["s1"].turnTimeoutId = "armed"
        /\ sends[w]["s1"] = 1
        /\ finalizeCalls[w]["s1"] = <<>>
        /\ db["s1"].status = "active_by_helper"
        /\ db["s1"].final_score = NewRow.final_score

C28_StatusMonotonic ==
    [][\A s \in Sessions :
          /\ db[s].status = "pending_pickup" =>
                db'[s].status \in {"pending_pickup", "active_by_helper"}
          /\ db[s].status = "active_by_helper" =>
                db'[s].status \in {"active_by_helper"} \cup TerminalStatuses
          /\ db[s].status \in TerminalStatuses => db'[s].status \in TerminalStatuses]_vars

\* C28 witness: the row of s1 went all the way: claimed by a worker, then
\* written as forfeited by that worker after its timeout
C28_RowWentAllTheWay ==
    \E w \in Workers :
        /\ registered[w]["s1"] = 1
        /\ finalizeCalls[w]["s1"] = <<"completed_timeout_forfeit">>
        /\ rowCount[w]["s1"] = 1
        /\ db["s1"].status = "completed_timeout_forfeit"
        /\ db["s1"].helper_bot_id = botUsername[w]

\* C29: early stop.  A claim attempt whose SELECT finds no pending unlocked
\* row ends its tick there: the tick makes no further attempt, no row of the
\* store changes and no session is added to a Map.  (The step is the attempt
\* of a tick of a process that is running, not the exit of the process.)
C29_EarlyStop ==
    [][\A t \in Ticks :
          (/\ tx[t].pc = "connect"
           /\ tx'[t].pc \notin {"connect", "failed"}
           /\ isShuttingDownHelper'[TickWorker(t)] # "exited"
           /\ Claimable = {}) =>
              /\ tx'[t] = IdleTx
              /\ db' = db
              /\ activeHelperSessions' = activeHelperSessions
              /\ registered' = registered]_vars

\* C29 witness: the second attempt of a tick, after its first one claimed s1,
\* is at its SELECT while the only pending row, s2, is locked by another
\* claim transaction: nothing is pending and unlocked
C29_NothingUnlockedToSelect ==
    \E t, u \in Ticks :
        /\ tx[t].pc = "connect"
        /\ tx[t].i = 1
        /\ db["s1"].status = "active_by_helper"
        /\ db["s2"].status = "pending_pickup"
        /\ "s2" \in LockedBy(u)
        /\ Claimable = {}

\* C30: claim order.  The row a claim attempt selects is pending_pickup, not
\* locked by another transaction, and no pending unlocked row at the moment
\* of the selection was created before it.
C30_ClaimOrder ==
    [][\A t \in Ticks, s \in Sessions :
          (tx[t].pc = "connect" /\ tx'[t].rows = <<s>>) =>
              /\ s \in Claimable
              /\ \A r \in Sessions :
                    (db[r].status = "pending_pickup" /\ ~RowLocked(r)) =>
                        CreatedAt(s) <= CreatedAt(r)]_vars

\* C30 witness: with s1 claimed, an attempt has selected s2 and holds it while
\* s3, created later, is pending and unlocked
C30_OlderRowSelected ==
    \E t \in Ticks :
        /\ tx[t].rows = <<"s2">>
        /\ db["s1"].status = "active_by_helper"
        /\ db["s2"].status = "pending_pickup"
        /\ db["s3"].status = "pending_pickup"
        /\ ~RowLocked("s3")

\* C31: roll routing, first match wins.  A step that accepts a roll accepts it
\* for one session, the first one in the insertion order of the Map whose
\* player and chat are those of the roll; every other session of the worker,
\* also one of the same player and chat, is left as it was.
C31_FirstMatchWins ==
    [][\A w \in Workers, s \in Sessions, v \in 1..MaxDice :
          Accepted(w, s, v) =>
              /\ \E k \in 1..Len(activeHelperSessions[w]) :
                    /\ activeHelperSessions[w][k] = s
                    /\ \A j \in 1..(k - 1) :
                          UserChat(activeHelperSessions[w][j]) # UserChat(s)
              /\ \A x \in Sessions \ {s} :
                    /\ obj'[w][x] = obj[w][x]
                    /\ InMap(w, x)' = InMap(w, x)
                    /\ finalizeCalls'[w][x] = finalizeCalls[w][x]]_vars

\* C31 witness: w1 runs s1 and s2 of the same player and chat, s1 inserted
\* first; the roll 2 went to s1 and s2 has no roll
C31_RollWentToFirst ==
    /\ activeHelperSessions["w1"] = <<"s1", "s2">>
    /\ UserChat("s1") = UserChat("s2")
    /\ RunRolls("w1", "s1") = <<2>>
    /\ RunRolls("w1", "s2") = <<>>
    /\ obj["w1"]["s2"].current_total_score = initial_score("s2")

\* C32: sequential turns.  Once a session has been handed to the finalizer of
\* a worker, no step of that worker accepts a roll for it and no step hands it
\* to the finalizer as timed out.
C32_SequentialTurns ==
    [][\A w \in Workers, s \in Sessions :
          (finalizeCalls[w][s] # <<>> /\ isShuttingDownHelper'[w] # "exited") =>
              /\ RunRolls(w, s)' = RunRolls(w, s)
              /\ CallsWith(w, s, "completed_timeout_forfeit")' =
                     CallsWith(w, s, "completed_timeout_forfeit")]_vars

\* C33: uncaught process-level error.  A running worker that is not shutting
\* down never exits in one step; an uncaught exception makes it run the
\* shutdown sequence of a termination signal: the flag is set, the claim
\* timer is stopped, the timer of every session in the Map is cancelled and
\* nothing else changes, and the exit is left to the end of that sequence.
C33_UncaughtStartsShutdown ==
    [][\A w \in Workers :
          /\ (startup[w] = "done" /\ isShuttingDownHelper[w] = "no") =>
                isShuttingDownHelper'[w] # "exited"
          /\ (received[w] = "none" /\ received'[w] = "uncaughtException_exit") =>
                /\ isShuttingDownHelper[w] = "no"
                /\ isShuttingDownHelper'[w] = "flag"
                /\ dbPollingIntervalId'[w] # "set"
                /\ \A s \in Sessions : InMap(w, s) => PendingTimers(w, s)' = 0
                /\ UNCHANGED <<db, tx, activeHelperSessions, fin, finalizeCalls, sends>>]_vars

\* C33 witness: the worker had claimed s1 and armed its timer when the
\* exception came: the flag is set, the claim timer cleared, the timer of s1
\* cancelled, and the process has not exited
C33_ShutdownAfterException ==
    \E w \in Workers :
        /\ received[w] = "uncaughtException_exit"
        /\ isShuttingDownHelper[w] = "flag"
        /\ dbPollingIntervalId[w] = "cleared"
        /\ liveAtShutdown[w] = {"s1"}
        /\ obj[w]["s1"].turnTimeoutId = "dead"

\* C34: live table agrees with the store.  Every session in the Map of a
\* worker has a committed row with status active_by_helper that carries an
\* owner id of that worker, written by a claim this worker made; no session
\* is in a Map while its claim is uncommitted.
C34_LiveTableAgreesWithStore ==
    \A w \in Workers, s \in Sessions :
        InMap(w, s) =>
            /\ db[s].status = "active_by_helper"
            /\ db[s].helper_bot_id \in {DefaultUsername, MeUsername(w)}
            /\ registered[w][s] >= 1

\* C35: no orphaned session.  With a worker that neither shuts down nor
\* crashes and timers that fire, every session the worker claimed eventually
\* has a terminal status in the store, also when a store write of a finalize
\* call fails.
C35_NoOrphanedSession ==
    \A w \in Workers, s \in Sessions :
        registered[w][s] >= 1 ~> db[s].status \in TerminalStatuses

\* the rolls of the run as the row of s persists them: what follows the
\* initial rolls of s in final_rolls_json
PersistedRun(s) ==
    LET rolls == JSONparse(db[s].final_rolls_json)
        n == Len(JSONparse(OrEmptyArray(initial_rolls_json(s))))
    IN SubSeq(rolls, n + 1, Len(rolls))

\* C36: persisted score agrees with persisted rolls.  In every terminal row
\* final_score is the initial score of the session plus the sum of the rolls
\* that follow its initial rolls in final_rolls_json; a row written on the
\* error path of the opening prompt has the initial score and no such roll.
C36_ScoreAgreesWithRolls ==
    \A s \in Sessions :
        db[s].status \in TerminalStatuses =>
            /\ db[s].final_rolls_json # NullJson
            /\ db[s].final_score = initial_score(s) + SumSeq(PersistedRun(s))
            /\ db[s].status = "error_helper_init_prompt" =>
                  db[s].final_score = initial_score(s) /\ PersistedRun(s) = <<>>

\* the last element of a non-empty sequence, 0 for the empty one
LastOf(q) == IF Len(q) = 0 THEN 0 ELSE q[Len(q)]

\* C37: terminal roll is recorded.  The roll that ends a run is handed to the
\* finalizer as the last of the rolls and inside the score, and a row stored
\* as completed_bust or completed_target_reached ends its roll sequence with
\* that roll and counts it in final_score: for a bust the score is the initial
\* score plus the run score before the roll plus bust_on_value.
C37_TerminalRollRecorded ==
    /\ [](\A s \in Sessions :
             /\ db[s].status = "completed_bust" =>
                   /\ LastOf(PersistedRun(s)) = bust_on_value(s)
                   /\ db[s].final_score = initial_score(s) + SumSeq(PersistedRun(s))
             /\ db[s].status = "completed_target_reached" =>
                   /\ LastOf(PersistedRun(s)) \notin {0, bust_on_value(s)}
                   /\ db[s].final_score = initial_score(s) + SumSeq(PersistedRun(s)))
    /\ [][\A w \in Workers, s \in Sessions, v \in 1..MaxDice :
             (Accepted(w, s, v) /\ ~InMap(w, s)') =>
                 \A r \in BagToSet(fin') :
                     (r.w = w /\ r.s = s /\ CopiesIn(r, fin') > CopiesIn(r, fin)) =>
                         /\ LastOf(JSONparse(r.finalRollsCombined)) = v
                         /\ r.finalOverallScore =
                                initial_score(s) + obj[w][s].jackpot_run_score + v]_vars

\* C37 witness: s1 entered with 7 and [3,4], rolled 2 and then the bust value:
\* the row has [3,4,2,1] and 7 + 2 + 1
C37_BustRowHasBustRoll ==
    /\ db["s1"].status = "completed_bust"
    /\ db["s1"].final_rolls_json = JSONstringify(<<3, 4, 2, 1>>)
    /\ db["s1"].final_score = 10

\* C38: stable owner id.  When a finalize UPDATE of worker w for session s
\* reaches the store (it changes the row or affects zero rows), the owner id
\* it presents as $6, the botUsername of w at that moment, is the
\* helper_bot_id that the claim of w wrote into the row of s.
C38_StableOwnerId ==
    [][\A r \in BagToSet(fin) :
          (/\ CopiesIn(r, fin') < CopiesIn(r, fin)
           /\ \/ rowCount'[r.w][r.s] # rowCount[r.w][r.s]
              \/ zeroRows'[r.w][r.s] # zeroRows[r.w][r.s])
          => botUsername[r.w] = db[r.s].helper_bot_id]_vars

\* C39: rolls ignored during shutdown.  Once isShuttingDownHelper of a worker
\* is set, a roll event for that worker changes nothing, also when the roller
\* has an active session in the Map: no step appends a roll to the run of a
\* session of that worker, no completed_bust or completed_target_reached
\* call is added for it, and a step of the roll handler leaves the session
\* objects, their timers, the Map and the finalize calls as they were.
C39_RollsIgnoredDuringShutdown ==
    [][\A w \in Workers :
          isShuttingDownHelper[w] = "flag" =>
              /\ \A s \in Sessions, v \in 1..MaxDice : ~Accepted(w, s, v)
              /\ \A r \in BagToSet(fin') :
                    (r.w = w /\ CopiesIn(r, fin') > CopiesIn(r, fin)) =>
                        r.finalStatus \notin {"completed_bust", "completed_target_reached"}
              /\ \A p \in Players, v \in 1..MaxDice :
                    Roll(w, p, v) =>
                        UNCHANGED <<obj, activeHelperSessions, fin, finalizeCalls,
                                    stale, sends, db>>]_vars

\* C39 witness: w1 is shutting down with s1 in its Map, the row still active,
\* the turn timer cleared by the shutdown, one roll accepted before the flag
\* and no finalize call made: the roll handler is enabled and does nothing
C39_ShutdownWithLiveSession ==
    /\ isShuttingDownHelper["w1"] = "flag"
    /\ InMap("w1", "s1")
    /\ db["s1"].status = "active_by_helper"
    /\ obj["w1"]["s1"].jackpot_run_rolls = <<2>>
    /\ obj["w1"]["s1"].turnTimeoutId = "dead"
    /\ finalizeCalls["w1"]["s1"] = <<>>
    /\ ENABLED Roll("w1", UserChat("s1"), 1)

\* a failure the retry is meant for: no response, status 429 or 5xx
RetryableFailure(r) ==
    r.status = NoResponse \/ r.status = 429 \/ (r.status >= 500 /\ r.status <= 599)

\* C40: bounded price fetch.  One call makes at most PRICE_FETCH_RETRIES + 1
\* requests; every request but the last was answered by a retryable failure
\* (no response, 429 or 5xx); an attempt that fails in another way is the
\* last one and the call raises; and a call that was started ends by
\* returning a price or raising an error.
C40_BoundedPriceFetch ==
    /\ [](priceFetch.requests <= PRICE_FETCH_RETRIES + 1)
    /\ [](\A k \in 1..Len(priceFetch.log) :
             k < Len(priceFetch.log) => RetryableFailure(priceFetch.log[k]))
    /\ [](\A k \in 1..Len(priceFetch.log) :
             (~Succeeds(priceFetch.log[k]) /\ ~RetryableFailure(priceFetch.log[k])) =>
                 (k = Len(priceFetch.log) /\ priceFetch.pc = "raised"))
    /\ (priceFetch.pc = "request") ~> (priceFetch.pc \in {"returned", "raised"})

====
